---- MODULE Spec2Model ----
(***************************************************************************)
(* Clinic records manager: entity CRUD over a Neo4j graph (backend.py),    *)
(* the role gate (db.py), login accounts (login_backend.py), the file      *)
(* allocator (lo_save_file) and the MongoDB message log                    *)
(* (messaging_backend.py).                                                 *)
(*                                                                         *)
(* One action models one whole handler call.  The outcome of the call      *)
(* (normal return or the exception raised), its arguments and its return   *)
(* value are recorded in the variable last.                                *)
(***************************************************************************)
EXTENDS Integers, Sequences, FiniteSets, TLC

(***************************************************************************)
(* Python values.  String-typed values (ids, names, texts) are TLA+        *)
(* strings, with NULL for Python None / a missing Neo4j property.  Values  *)
(* that may be an int, a str or None (date parts, file_oid) are tagged.    *)
(* The text of a date field is a sequence of one-character strings.        *)
(***************************************************************************)
NULL == "<null>"
None == [t |-> "None"]
PyInt(n) == [t |-> "int", v |-> n]
PyStr(s) == [t |-> "str", v |-> s]

\* str.strip() == "" for the string literals the model uses
BlankStrs == {"", " "}

\* backend._is_blank on a string-typed argument
is_blank_s(x) == x = NULL \/ x \in BlankStrs

\* Python truthiness of a string-typed argument ("x or None")
or_None(x) == IF x = NULL \/ x = "" THEN NULL ELSE x

(***************************************************************************)
(* int(text) on a date field                                               *)
(***************************************************************************)
Digits == {"0", "1", "2", "3", "4", "5", "6", "7", "8", "9"}

DigitVal(c) ==
    CASE c = "0" -> 0 [] c = "1" -> 1 [] c = "2" -> 2 [] c = "3" -> 3
      [] c = "4" -> 4 [] c = "5" -> 5 [] c = "6" -> 6 [] c = "7" -> 7
      [] c = "8" -> 8 [] c = "9" -> 9

RECURSIVE lstrip(_)
lstrip(s) == IF s # <<>> /\ Head(s) = " " THEN lstrip(Tail(s)) ELSE s

RECURSIVE rstrip(_)
rstrip(s) ==
    IF s # <<>> /\ s[Len(s)] = " " THEN rstrip(SubSeq(s, 1, Len(s) - 1)) ELSE s

strip(s) == rstrip(lstrip(s))

RECURSIVE digits_value(_)
digits_value(s) ==
    IF s = <<>> THEN 0
    ELSE 10 * digits_value(SubSeq(s, 1, Len(s) - 1)) + DigitVal(s[Len(s)])

all_digits(s) == s # <<>> /\ \A i \in 1..Len(s) : s[i] \in Digits

\* int(s) succeeds: an optional sign followed by decimal digits
int_ok(s) ==
    IF s # <<>> /\ Head(s) \in {"+", "-"} THEN all_digits(Tail(s))
    ELSE all_digits(s)

int_of(s) ==
    IF Head(s) = "-" THEN 0 - digits_value(Tail(s))
    ELSE IF Head(s) = "+" THEN digits_value(Tail(s))
    ELSE digits_value(s)

\* backend._is_blank on a tagged value
is_blank(x) == x.t = "None" \/ (x.t = "str" /\ strip(x.v) = <<>>)

\* backend._to_int raises ValueError
to_int_raises(x) == x.t = "str" /\ strip(x.v) # <<>> /\ ~int_ok(strip(x.v))

\* backend._to_int, where it does not raise
to_int(x) ==
    IF x.t = "str"
    THEN IF strip(x.v) = <<>> THEN None ELSE PyInt(int_of(strip(x.v)))
    ELSE x

(***************************************************************************)
(* validate_date_parts                                                     *)
(***************************************************************************)
MinYear == 1900
MaxYear == 3000

isleap(y) == y % 4 = 0 /\ (y % 100 # 0 \/ y % 400 = 0)

\* a month length that takes every fourth year for a leap year
monthrange_julian(y, m) ==
    IF m = 2 THEN (IF y % 4 = 0 THEN 29 ELSE 28)
    ELSE IF m \in {4, 6, 9, 11} THEN 30 ELSE 31

\* calendar.monthrange(y, m)[1]
monthrange(y, m) ==
    IF m = 2 THEN (IF isleap(y) THEN 29 ELSE 28)
    ELSE IF m \in {4, 6, 9, 11} THEN 30 ELSE 31

\* a day limit that takes February for a month of 28 days
dim_common_year(m) == IF m = 2 THEN 28 ELSE IF m \in {4, 6, 9, 11} THEN 30 ELSE 31

\* the day limit used when no year is given
dim_no_year(m) == IF m = 2 THEN 29 ELSE IF m \in {4, 6, 9, 11} THEN 30 ELSE 31

\* the checks of validate_date_parts on normalised parts (None or PyInt)
date_parts_ok(y, m, d) ==
    \/ (y = None /\ m = None /\ d = None)
    \/ /\ y # None => (MinYear <= y.v /\ y.v <= MaxYear)
       /\ m # None => (1 <= m.v /\ m.v <= 12)
       /\ d # None => (1 <= d.v /\ d.v <= 31)
       /\ (d # None /\ m # None) =>
              d.v <= (IF y # None THEN monthrange(y.v, m.v) ELSE dim_no_year(m.v))

\* validate_date_parts(year, month, day): [ok, y, m, d]; ok = FALSE is ValueError
validate_date_parts(year, month, day) ==
    IF to_int_raises(year) \/ to_int_raises(month) \/ to_int_raises(day)
    THEN [ok |-> FALSE, y |-> None, m |-> None, d |-> None]
    ELSE LET y == to_int(year)
             m == to_int(month)
             d == to_int(day)
         IN  [ok |-> date_parts_ok(y, m, d), y |-> y, m |-> m, d |-> d]

(***************************************************************************)
(* State                                                                   *)
(***************************************************************************)
VARIABLES
    CURRENT_ROLE,   \* db._CURRENT_ROLE
    Clinic,         \* (:Clinic)      cli_id     -> [cli_name, address]
    Department,     \* (:Department)  dept_id    -> [dept_name]
    Doctor,         \* (:Doctor)      doctor_ID  -> [name]
    Patient,        \* (:Patient)     patient_ID -> [name]
    Appointment,    \* (:Appointment) appoint_id -> [appoint_year, .._month, .._day, appoint_location]
    Observation,    \* (:Observation) obser_id   -> [obs_year, obs_month, obs_day, obs_comment_text]
    Diagnosis,      \* (:Diagnosis)   diagn_id   -> [diagn_year, diagn_month, diagn_day, diagn_comment_text]
    rels,           \* relationships between entities: [type, from, src, dst]
    file_rels,      \* (:Observation|:Diagnosis)-[:FILE]->(:Blob): [type, from, src, dst], dst an oid
    Blob,           \* (:Blob) nodes: [oid, url]
    Counters,       \* (:Counters {id:'global'}): <<>> when missing, else <<lo_oid>>
    files,          \* the ./files directory: target name -> source path written to it
    Admin,          \* (:Admin) name -> [password, person_id]
    User,           \* (:User)  name -> [password, person_id]
    messages,       \* the messages collection, in insertion order
    session,        \* the main window of this process: [login_name, role], NoSession before login
    last            \* the last handler call: [op, args, out, ret]

org == <<Clinic, Department, Doctor, Patient>>
clin == <<Appointment, Observation, Diagnosis>>
blobstore == <<Blob, Counters, files>>
accounts == <<Admin, User>>
graph == <<org, clin, rels, file_rels, blobstore, accounts>>
vars == <<CURRENT_ROLE, graph, messages, session, last>>

EmptyTbl == [x \in {} |-> NULL]

\* MERGE (n {key:id}) SET n = rec
Upsert(tbl, id, rec) ==
    [x \in (DOMAIN tbl) \cup {id} |-> IF x = id THEN rec ELSE tbl[x]]

\* DELETE n
Remove(tbl, id) == [x \in (DOMAIN tbl) \ {id} |-> tbl[x]]

Rel(type, from, src, dst) == [type |-> type, from |-> from, src |-> src, dst |-> dst]

\* the relationships of one type leaving one source node
Out(R, type, from, src) ==
    {r \in R : r.type = type /\ r.from = from /\ r.src = src}

\* MATCH (s) MATCH (t) MERGE (s)-[:type]->(t)
merge_link_dangling(R, type, from, src, srcExists, dst, dstExists) ==
    IF srcExists THEN R \cup {Rel(type, from, src, dst)} ELSE R

merge_link(R, type, from, src, srcExists, dst, dstExists) ==
    IF srcExists /\ dstExists THEN R \cup {Rel(type, from, src, dst)} ELSE R

\* MATCH (s) OPTIONAL MATCH (s)-[r:type]->() DELETE r WITH s MATCH (t) MERGE (s)-[:type]->(t)
relink(R, type, from, src, srcExists, dst, dstExists) ==
    IF ~srcExists THEN R
    ELSE LET R1 == R \ Out(R, type, from, src)
         IN  IF dstExists THEN R1 \cup {Rel(type, from, src, dst)} ELSE R1

\* MATCH (n) DETACH DELETE n: relationships into a node of label lbl with this id,
\* and out of it, go with the node
InTypes(lbl) ==
    CASE lbl = "Clinic" -> {"BELONGS_TO"}
      [] lbl = "Department" -> {"WORKS_IN"}
      [] lbl = "Doctor" -> {"ASSIGNED_TO", "DOCTOR"}
      [] lbl = "Patient" -> {"PATIENT"}
      [] lbl = "Appointment" -> {"OF_APPOINTMENT"}
      [] lbl = "Observation" -> {"OF_OBSERVATION"}
      [] OTHER -> {}

\* a delete that takes the relationships leaving the node and keeps those entering it
detach_outgoing_only(R, lbl, id) == {r \in R : ~(r.from = lbl /\ r.src = id)}

detach(R, lbl, id) ==
    {r \in R : ~(r.from = lbl /\ r.src = id) /\ ~(r.type \in InTypes(lbl) /\ r.dst = id)}

(***************************************************************************)
(* db.py: the role gate                                                    *)
(***************************************************************************)
is_admin == CURRENT_ROLE = "super"

\* a gate that lets every role through
require_admin_open == FALSE

\* require_admin() raises PermissionError
require_admin_raises == ~is_admin

Call(op, args, out, ret) == [op |-> op, args |-> args, out |-> out, ret |-> ret]

\* the handler raised before any statement ran
Raise(op, args, exc) ==
    /\ last' = Call(op, args, exc, NULL)
    /\ UNCHANGED <<CURRENT_ROLE, graph, messages, session>>

set_dsn(r) ==
    /\ CURRENT_ROLE' = IF r = "super" THEN "super" ELSE "normal"
    /\ last' = Call("set_dsn", [role |-> r], "ok", NULL)
    /\ UNCHANGED <<graph, messages, session>>

(***************************************************************************)
(* backend.py: Clinic                                                      *)
(***************************************************************************)
clinic_insert(cli_id, cli_name, address) ==
    LET args == [cli_id |-> cli_id, cli_name |-> cli_name, address |-> address]
    IN  IF require_admin_raises THEN Raise("clinic_insert", args, "PermissionError")
        ELSE /\ Clinic' = Upsert(Clinic, cli_id,
                              [cli_name |-> cli_name, address |-> or_None(address)])
             /\ last' = Call("clinic_insert", args, "ok", NULL)
             /\ UNCHANGED <<CURRENT_ROLE, Department, Doctor, Patient, clin, rels, file_rels,
                            blobstore, accounts, messages, session>>

clinic_update(cli_id, cli_name, address) ==
    LET args == [cli_id |-> cli_id, cli_name |-> cli_name, address |-> address]
    IN  IF require_admin_raises THEN Raise("clinic_update", args, "PermissionError")
        ELSE /\ Clinic' =
                  IF cli_id \in DOMAIN Clinic
                  THEN [Clinic EXCEPT ![cli_id] =
                          [cli_name |-> IF is_blank_s(cli_name) THEN @.cli_name ELSE cli_name,
                           address |-> IF is_blank_s(address) THEN @.address ELSE address]]
                  ELSE Clinic
             /\ last' = Call("clinic_update", args, "ok", NULL)
             /\ UNCHANGED <<CURRENT_ROLE, Department, Doctor, Patient, clin, rels, file_rels,
                            blobstore, accounts, messages, session>>

clinic_delete(cli_id) ==
    LET args == [cli_id |-> cli_id]
    IN  IF require_admin_raises THEN Raise("clinic_delete", args, "PermissionError")
        ELSE /\ Clinic' = Remove(Clinic, cli_id)
             /\ rels' = IF cli_id \in DOMAIN Clinic THEN detach(rels, "Clinic", cli_id) ELSE rels
             /\ last' = Call("clinic_delete", args, "ok", NULL)
             /\ UNCHANGED <<CURRENT_ROLE, Department, Doctor, Patient, clin, file_rels,
                            blobstore, accounts, messages, session>>

(***************************************************************************)
(* backend.py: Department                                                  *)
(***************************************************************************)
department_insert(dept_id, dept_name, cli_id) ==
    LET args == [dept_id |-> dept_id, dept_name |-> dept_name, cli_id |-> cli_id]
    IN  IF require_admin_raises THEN Raise("department_insert", args, "PermissionError")
        ELSE IF is_blank_s(cli_id)
        \* "MERGE (:Department {dept_id:$id}) SET _.dept_name=$nm": the variable _
        \* is not bound, the statement is rejected and nothing is written
        THEN Raise("department_insert", args, "CypherSyntaxError")
        ELSE /\ Department' = Upsert(Department, dept_id, [dept_name |-> dept_name])
             /\ rels' = merge_link(rels, "BELONGS_TO", "Department", dept_id, TRUE,
                                   cli_id, cli_id \in DOMAIN Clinic)
             /\ last' = Call("department_insert", args, "ok", NULL)
             /\ UNCHANGED <<CURRENT_ROLE, Clinic, Doctor, Patient, clin, file_rels,
                            blobstore, accounts, messages, session>>

department_update(dept_id, dept_name, cli_id) ==
    LET args == [dept_id |-> dept_id, dept_name |-> dept_name, cli_id |-> cli_id]
        exists == dept_id \in DOMAIN Department
    IN  IF require_admin_raises THEN Raise("department_update", args, "PermissionError")
        ELSE /\ Department' =
                  IF exists /\ ~is_blank_s(dept_name)
                  THEN [Department EXCEPT ![dept_id] = [dept_name |-> dept_name]]
                  ELSE Department
             /\ rels' =
                  IF ~is_blank_s(cli_id)
                  THEN relink(rels, "BELONGS_TO", "Department", dept_id, exists,
                              cli_id, cli_id \in DOMAIN Clinic)
                  ELSE rels
             /\ last' = Call("department_update", args, "ok", NULL)
             /\ UNCHANGED <<CURRENT_ROLE, Clinic, Doctor, Patient, clin, file_rels,
                            blobstore, accounts, messages, session>>

department_delete(dept_id) ==
    LET args == [dept_id |-> dept_id]
    IN  IF require_admin_raises THEN Raise("department_delete", args, "PermissionError")
        ELSE /\ Department' = Remove(Department, dept_id)
             /\ rels' = IF dept_id \in DOMAIN Department
                        THEN detach(rels, "Department", dept_id) ELSE rels
             /\ last' = Call("department_delete", args, "ok", NULL)
             /\ UNCHANGED <<CURRENT_ROLE, Clinic, Doctor, Patient, clin, file_rels,
                            blobstore, accounts, messages, session>>

(***************************************************************************)
(* backend.py: Doctor                                                      *)
(***************************************************************************)
doctor_insert(doctor_personnumer, doctor_name, dept_id) ==
    LET args == [doctor_personnumer |-> doctor_personnumer, doctor_name |-> doctor_name,
                 dept_id |-> dept_id]
    IN  IF require_admin_raises THEN Raise("doctor_insert", args, "PermissionError")
        ELSE /\ Doctor' = Upsert(Doctor, doctor_personnumer, [name |-> doctor_name])
             /\ rels' =
                  IF ~is_blank_s(dept_id)
                  THEN merge_link(rels, "WORKS_IN", "Doctor", doctor_personnumer, TRUE,
                                  dept_id, dept_id \in DOMAIN Department)
                  ELSE rels
             /\ last' = Call("doctor_insert", args, "ok", NULL)
             /\ UNCHANGED <<CURRENT_ROLE, Clinic, Department, Patient, clin, file_rels,
                            blobstore, accounts, messages, session>>

doctor_update(doctor_personnumer, new_dept_id, new_doctor_name) ==
    LET args == [doctor_personnumer |-> doctor_personnumer, new_dept_id |-> new_dept_id,
                 new_doctor_name |-> new_doctor_name]
        exists == doctor_personnumer \in DOMAIN Doctor
    IN  IF require_admin_raises THEN Raise("doctor_update", args, "PermissionError")
        ELSE /\ Doctor' =
                  IF exists /\ ~is_blank_s(new_doctor_name)
                  THEN [Doctor EXCEPT ![doctor_personnumer] = [name |-> new_doctor_name]]
                  ELSE Doctor
             /\ rels' =
                  IF ~is_blank_s(new_dept_id)
                  THEN relink(rels, "WORKS_IN", "Doctor", doctor_personnumer, exists,
                              new_dept_id, new_dept_id \in DOMAIN Department)
                  ELSE rels
             /\ last' = Call("doctor_update", args, "ok", NULL)
             /\ UNCHANGED <<CURRENT_ROLE, Clinic, Department, Patient, clin, file_rels,
                            blobstore, accounts, messages, session>>

doctor_delete(doctor_personnumer) ==
    LET args == [doctor_personnumer |-> doctor_personnumer]
    IN  IF require_admin_raises THEN Raise("doctor_delete", args, "PermissionError")
        ELSE /\ Doctor' = Remove(Doctor, doctor_personnumer)
             /\ rels' = IF doctor_personnumer \in DOMAIN Doctor
                        THEN detach(rels, "Doctor", doctor_personnumer) ELSE rels
             /\ last' = Call("doctor_delete", args, "ok", NULL)
             /\ UNCHANGED <<CURRENT_ROLE, Clinic, Department, Patient, clin, file_rels,
                            blobstore, accounts, messages, session>>

(***************************************************************************)
(* backend.py: Patient                                                     *)
(***************************************************************************)
patient_insert(patient_personnumer, patient_name, doctor_personnumer) ==
    LET args == [patient_personnumer |-> patient_personnumer, patient_name |-> patient_name,
                 doctor_personnumer |-> doctor_personnumer]
    IN  IF require_admin_raises THEN Raise("patient_insert", args, "PermissionError")
        ELSE /\ Patient' = Upsert(Patient, patient_personnumer, [name |-> patient_name])
             /\ rels' =
                  IF ~is_blank_s(doctor_personnumer)
                  THEN merge_link(rels, "ASSIGNED_TO", "Patient", patient_personnumer, TRUE,
                                  doctor_personnumer, doctor_personnumer \in DOMAIN Doctor)
                  ELSE rels
             /\ last' = Call("patient_insert", args, "ok", NULL)
             /\ UNCHANGED <<CURRENT_ROLE, Clinic, Department, Doctor, clin, file_rels,
                            blobstore, accounts, messages, session>>

patient_update(patient_personnumer, new_doctor_personnumer, new_patient_name) ==
    LET args == [patient_personnumer |-> patient_personnumer,
                 new_doctor_personnumer |-> new_doctor_personnumer,
                 new_patient_name |-> new_patient_name]
        exists == patient_personnumer \in DOMAIN Patient
    IN  IF require_admin_raises THEN Raise("patient_update", args, "PermissionError")
        ELSE /\ Patient' =
                  IF exists /\ ~is_blank_s(new_patient_name)
                  THEN [Patient EXCEPT ![patient_personnumer] = [name |-> new_patient_name]]
                  ELSE Patient
             /\ rels' =
                  IF ~is_blank_s(new_doctor_personnumer)
                  THEN relink(rels, "ASSIGNED_TO", "Patient", patient_personnumer, exists,
                              new_doctor_personnumer, new_doctor_personnumer \in DOMAIN Doctor)
                  ELSE rels
             /\ last' = Call("patient_update", args, "ok", NULL)
             /\ UNCHANGED <<CURRENT_ROLE, Clinic, Department, Doctor, clin, file_rels,
                            blobstore, accounts, messages, session>>

patient_delete(patient_personnumer) ==
    LET args == [patient_personnumer |-> patient_personnumer]
    IN  IF require_admin_raises THEN Raise("patient_delete", args, "PermissionError")
        ELSE /\ Patient' = Remove(Patient, patient_personnumer)
             /\ rels' = IF patient_personnumer \in DOMAIN Patient
                        THEN detach(rels, "Patient", patient_personnumer) ELSE rels
             /\ last' = Call("patient_delete", args, "ok", NULL)
             /\ UNCHANGED <<CURRENT_ROLE, Clinic, Department, Doctor, clin, file_rels,
                            blobstore, accounts, messages, session>>

(***************************************************************************)
(* backend.py: the date arguments of the update handlers                   *)
(***************************************************************************)
\* y_in = None if _is_blank(year) else _to_int(year) if isinstance(year, str) else year
date_in(x) == IF is_blank(x) THEN None ELSE to_int(x)

date_in_raises(x) == ~is_blank(x) /\ to_int_raises(x)

\* a merge that looks at the supplied part only
merged_part_new_only(new, old) == new

\* merged_y = y_in if y_in is not None else old["y"]
merged_part(new, old) == IF new # None THEN new ELSE old

\* "if y_in is not None: sets.append(...)": the stored part after the SET
set_part(new, old) == IF new # None THEN new ELSE old

(***************************************************************************)
(* backend.py: Appointment                                                 *)
(***************************************************************************)
appointment_insert(appoint_id, year, month, day, location, patient_personnumer, doctor_personnumer) ==
    LET args == [appoint_id |-> appoint_id, year |-> year, month |-> month, day |-> day,
                 location |-> location, patient_personnumer |-> patient_personnumer,
                 doctor_personnumer |-> doctor_personnumer]
        v == validate_date_parts(year, month, day)
        R1 == IF ~is_blank_s(patient_personnumer)
              THEN relink(rels, "PATIENT", "Appointment", appoint_id, TRUE,
                          patient_personnumer, patient_personnumer \in DOMAIN Patient)
              ELSE rels
        R2 == IF ~is_blank_s(doctor_personnumer)
              THEN relink(R1, "DOCTOR", "Appointment", appoint_id, TRUE,
                          doctor_personnumer, doctor_personnumer \in DOMAIN Doctor)
              ELSE R1
    IN  IF require_admin_raises THEN Raise("appointment_insert", args, "PermissionError")
        ELSE IF ~v.ok THEN Raise("appointment_insert", args, "ValueError")
        ELSE /\ Appointment' = Upsert(Appointment, appoint_id,
                                   [appoint_year |-> v.y, appoint_month |-> v.m,
                                    appoint_day |-> v.d,
                                    appoint_location |-> or_None(location)])
             /\ rels' = R2
             /\ last' = Call("appointment_insert", args, "ok", NULL)
             /\ UNCHANGED <<CURRENT_ROLE, org, Observation, Diagnosis, file_rels,
                            blobstore, accounts, messages, session>>

appointment_update(appoint_id, year, month, day, location, patient_personnumer, doctor_personnumer) ==
    LET args == [appoint_id |-> appoint_id, year |-> year, month |-> month, day |-> day,
                 location |-> location, patient_personnumer |-> patient_personnumer,
                 doctor_personnumer |-> doctor_personnumer]
        y_in == date_in(year)
        m_in == date_in(month)
        d_in == date_in(day)
        old == Appointment[appoint_id]
        R1 == IF ~is_blank_s(patient_personnumer)
              THEN relink(rels, "PATIENT", "Appointment", appoint_id, TRUE,
                          patient_personnumer, patient_personnumer \in DOMAIN Patient)
              ELSE rels
        R2 == IF ~is_blank_s(doctor_personnumer)
              THEN relink(R1, "DOCTOR", "Appointment", appoint_id, TRUE,
                          doctor_personnumer, doctor_personnumer \in DOMAIN Doctor)
              ELSE R1
    IN  IF require_admin_raises THEN Raise("appointment_update", args, "PermissionError")
        ELSE IF date_in_raises(year) \/ date_in_raises(month) \/ date_in_raises(day)
        THEN Raise("appointment_update", args, "ValueError")
        ELSE IF appoint_id \notin DOMAIN Appointment
        THEN Raise("appointment_update", args, "ValueError")
        ELSE IF ~validate_date_parts(merged_part(y_in, old.appoint_year),
                                     merged_part(m_in, old.appoint_month),
                                     merged_part(d_in, old.appoint_day)).ok
        THEN Raise("appointment_update", args, "ValueError")
        ELSE /\ Appointment' = [Appointment EXCEPT ![appoint_id] =
                   [appoint_year |-> set_part(y_in, @.appoint_year),
                    appoint_month |-> set_part(m_in, @.appoint_month),
                    appoint_day |-> set_part(d_in, @.appoint_day),
                    appoint_location |->
                        IF is_blank_s(location) THEN @.appoint_location ELSE location]]
             /\ rels' = R2
             /\ last' = Call("appointment_update", args, "ok", NULL)
             /\ UNCHANGED <<CURRENT_ROLE, org, Observation, Diagnosis, file_rels,
                            blobstore, accounts, messages, session>>

appointment_delete(appoint_id) ==
    LET args == [appoint_id |-> appoint_id]
    IN  IF require_admin_raises THEN Raise("appointment_delete", args, "PermissionError")
        ELSE /\ Appointment' = Remove(Appointment, appoint_id)
             /\ rels' = IF appoint_id \in DOMAIN Appointment
                        THEN detach(rels, "Appointment", appoint_id) ELSE rels
             /\ last' = Call("appointment_delete", args, "ok", NULL)
             /\ UNCHANGED <<CURRENT_ROLE, org, Observation, Diagnosis, file_rels,
                            blobstore, accounts, messages, session>>

(***************************************************************************)
(* backend.py: Observation                                                 *)
(***************************************************************************)
BlobOids == {b.oid : b \in Blob}

\* the FILE statement of the observation and diagnosis handlers
file_link(F, from, src, file_oid) ==
    IF file_oid # None
    THEN relink(F, "FILE", from, src, TRUE, file_oid.v, file_oid.v \in BlobOids)
    ELSE F

observation_insert(obser_id, year, month, day, appoint_id, comment_text, file_oid) ==
    LET args == [obser_id |-> obser_id, year |-> year, month |-> month, day |-> day,
                 appoint_id |-> appoint_id, comment_text |-> comment_text,
                 file_oid |-> file_oid]
        v == validate_date_parts(year, month, day)
    IN  IF require_admin_raises THEN Raise("observation_insert", args, "PermissionError")
        ELSE IF ~v.ok THEN Raise("observation_insert", args, "ValueError")
        ELSE /\ Observation' = Upsert(Observation, obser_id,
                                   [obs_year |-> v.y, obs_month |-> v.m, obs_day |-> v.d,
                                    obs_comment_text |-> or_None(comment_text)])
             /\ rels' = IF ~is_blank_s(appoint_id)
                        THEN relink(rels, "OF_APPOINTMENT", "Observation", obser_id, TRUE,
                                    appoint_id, appoint_id \in DOMAIN Appointment)
                        ELSE rels
             /\ file_rels' = file_link(file_rels, "Observation", obser_id, file_oid)
             /\ last' = Call("observation_insert", args, "ok", NULL)
             /\ UNCHANGED <<CURRENT_ROLE, org, Appointment, Diagnosis,
                            blobstore, accounts, messages, session>>

observation_update(obser_id, year, month, day, appoint_id, comment_text, file_oid) ==
    LET args == [obser_id |-> obser_id, year |-> year, month |-> month, day |-> day,
                 appoint_id |-> appoint_id, comment_text |-> comment_text,
                 file_oid |-> file_oid]
        y_in == date_in(year)
        m_in == date_in(month)
        d_in == date_in(day)
        old == Observation[obser_id]
    IN  IF require_admin_raises THEN Raise("observation_update", args, "PermissionError")
        ELSE IF date_in_raises(year) \/ date_in_raises(month) \/ date_in_raises(day)
        THEN Raise("observation_update", args, "ValueError")
        ELSE IF obser_id \notin DOMAIN Observation
        THEN Raise("observation_update", args, "ValueError")
        ELSE IF ~validate_date_parts(merged_part(y_in, old.obs_year),
                                     merged_part(m_in, old.obs_month),
                                     merged_part(d_in, old.obs_day)).ok
        THEN Raise("observation_update", args, "ValueError")
        ELSE /\ Observation' = [Observation EXCEPT ![obser_id] =
                   [obs_year |-> set_part(y_in, @.obs_year),
                    obs_month |-> set_part(m_in, @.obs_month),
                    obs_day |-> set_part(d_in, @.obs_day),
                    \* "if comment_text is not None"
                    obs_comment_text |->
                        IF comment_text # NULL THEN comment_text ELSE @.obs_comment_text]]
             /\ rels' = IF ~is_blank_s(appoint_id)
                        THEN relink(rels, "OF_APPOINTMENT", "Observation", obser_id, TRUE,
                                    appoint_id, appoint_id \in DOMAIN Appointment)
                        ELSE rels
             /\ file_rels' = file_link(file_rels, "Observation", obser_id, file_oid)
             /\ last' = Call("observation_update", args, "ok", NULL)
             /\ UNCHANGED <<CURRENT_ROLE, org, Appointment, Diagnosis,
                            blobstore, accounts, messages, session>>

observation_delete(obser_id) ==
    LET args == [obser_id |-> obser_id]
    IN  IF require_admin_raises THEN Raise("observation_delete", args, "PermissionError")
        ELSE /\ Observation' = Remove(Observation, obser_id)
             /\ rels' = IF obser_id \in DOMAIN Observation
                        THEN detach(rels, "Observation", obser_id) ELSE rels
             /\ file_rels' = IF obser_id \in DOMAIN Observation
                             THEN detach(file_rels, "Observation", obser_id) ELSE file_rels
             /\ last' = Call("observation_delete", args, "ok", NULL)
             /\ UNCHANGED <<CURRENT_ROLE, org, Appointment, Diagnosis,
                            blobstore, accounts, messages, session>>

(***************************************************************************)
(* backend.py: Diagnosis                                                   *)
(***************************************************************************)
diagnosis_insert(diagn_id, year, month, day, obser_id, comment_text, file_oid) ==
    LET args == [diagn_id |-> diagn_id, year |-> year, month |-> month, day |-> day,
                 obser_id |-> obser_id, comment_text |-> comment_text,
                 file_oid |-> file_oid]
        v == validate_date_parts(year, month, day)
    IN  IF require_admin_raises THEN Raise("diagnosis_insert", args, "PermissionError")
        ELSE IF ~v.ok THEN Raise("diagnosis_insert", args, "ValueError")
        ELSE /\ Diagnosis' = Upsert(Diagnosis, diagn_id,
                                 [diagn_year |-> v.y, diagn_month |-> v.m, diagn_day |-> v.d,
                                  diagn_comment_text |-> or_None(comment_text)])
             /\ rels' = IF ~is_blank_s(obser_id)
                        THEN relink(rels, "OF_OBSERVATION", "Diagnosis", diagn_id, TRUE,
                                    obser_id, obser_id \in DOMAIN Observation)
                        ELSE rels
             /\ file_rels' = file_link(file_rels, "Diagnosis", diagn_id, file_oid)
             /\ last' = Call("diagnosis_insert", args, "ok", NULL)
             /\ UNCHANGED <<CURRENT_ROLE, org, Appointment, Observation,
                            blobstore, accounts, messages, session>>

diagnosis_update(diagn_id, year, month, day, obser_id, comment_text, file_oid) ==
    LET args == [diagn_id |-> diagn_id, year |-> year, month |-> month, day |-> day,
                 obser_id |-> obser_id, comment_text |-> comment_text,
                 file_oid |-> file_oid]
        y_in == date_in(year)
        m_in == date_in(month)
        d_in == date_in(day)
        old == Diagnosis[diagn_id]
    IN  IF require_admin_raises THEN Raise("diagnosis_update", args, "PermissionError")
        ELSE IF date_in_raises(year) \/ date_in_raises(month) \/ date_in_raises(day)
        THEN Raise("diagnosis_update", args, "ValueError")
        ELSE IF diagn_id \notin DOMAIN Diagnosis
        THEN Raise("diagnosis_update", args, "ValueError")
        ELSE IF ~validate_date_parts(merged_part(y_in, old.diagn_year),
                                     merged_part(m_in, old.diagn_month),
                                     merged_part(d_in, old.diagn_day)).ok
        THEN Raise("diagnosis_update", args, "ValueError")
        ELSE /\ Diagnosis' = [Diagnosis EXCEPT ![diagn_id] =
                   [diagn_year |-> set_part(y_in, @.diagn_year),
                    diagn_month |-> set_part(m_in, @.diagn_month),
                    diagn_day |-> set_part(d_in, @.diagn_day),
                    \* "if comment_text is not None"
                    diagn_comment_text |->
                        IF comment_text # NULL THEN comment_text ELSE @.diagn_comment_text]]
             /\ rels' = IF ~is_blank_s(obser_id)
                        THEN relink(rels, "OF_OBSERVATION", "Diagnosis", diagn_id, TRUE,
                                    obser_id, obser_id \in DOMAIN Observation)
                        ELSE rels
             /\ file_rels' = file_link(file_rels, "Diagnosis", diagn_id, file_oid)
             /\ last' = Call("diagnosis_update", args, "ok", NULL)
             /\ UNCHANGED <<CURRENT_ROLE, org, Appointment, Observation,
                            blobstore, accounts, messages, session>>

diagnosis_delete(diagn_id) ==
    LET args == [diagn_id |-> diagn_id]
    IN  IF require_admin_raises THEN Raise("diagnosis_delete", args, "PermissionError")
        ELSE /\ Diagnosis' = Remove(Diagnosis, diagn_id)
             /\ rels' = IF diagn_id \in DOMAIN Diagnosis
                        THEN detach(rels, "Diagnosis", diagn_id) ELSE rels
             /\ file_rels' = IF diagn_id \in DOMAIN Diagnosis
                             THEN detach(file_rels, "Diagnosis", diagn_id) ELSE file_rels
             /\ last' = Call("diagnosis_delete", args, "ok", NULL)
             /\ UNCHANGED <<CURRENT_ROLE, org, Appointment, Observation,
                            blobstore, accounts, messages, session>>

(***************************************************************************)
(* backend.py: file storage                                                *)
(***************************************************************************)
Letters == {"a", "b", "c", "d", "e", "f", "g", "h", "i", "j", "k", "l", "m",
            "n", "o", "p", "q", "r", "s", "t", "u", "v", "w", "x", "y", "z"}

\* c.isalnum() or c in ('.',)
ext_char_ok(c) == c \in Letters \/ c \in Digits \/ c = "."

RECURSIVE rfind(_, _)
\* the last index of character c in s, 0 when there is none
rfind(s, c) ==
    IF s = <<>> THEN 0
    ELSE IF s[Len(s)] = c THEN Len(s)
    ELSE rfind(SubSeq(s, 1, Len(s) - 1), c)

\* Path(p).name
path_name(p) == SubSeq(p, rfind(p, "/") + 1, Len(p))

\* Path(p).suffix
path_suffix(p) ==
    LET name == path_name(p)
        i == rfind(name, ".")
    IN  IF 1 < i /\ i < Len(name) THEN SubSeq(name, i, Len(name)) ELSE <<>>

MaxExtLen == 10

\* _derive_target_name(oid, src_path): the pair stands for f"{oid}{safe_ext}"
derive_target_name(oid, src_path) ==
    LET ext == path_suffix(src_path)
        safe_ext == IF Len(ext) <= MaxExtLen /\ \A i \in 1..Len(ext) : ext_char_ok(ext[i])
                    THEN ext ELSE <<>>
    IN  <<oid, safe_ext>>

\* f"files/{target_name}"
files_url(target_name) == [dir |-> "files", name |-> target_name]

\* an allocator that hands out the stored value without advancing it
next_oid_stale(C) == IF C = <<>> THEN 1 ELSE C[1]

\* MERGE (c:Counters {id:'global'}) ON CREATE SET c.lo_oid = 0 SET c.lo_oid = c.lo_oid + 1
next_oid(C) == IF C = <<>> THEN 1 ELSE C[1] + 1

\* the writes of lo_save_file(path): [oid, Counters, files, Blob, ok];
\* ok = FALSE when CREATE (b:Blob {oid}) violates the uniqueness constraint blob_oid
lo_save(path) ==
    LET oid == next_oid(Counters)
        target_name == derive_target_name(oid, path)
        dup == oid \in BlobOids
    IN  [oid |-> oid,
         Counters |-> <<oid>>,
         files |-> Upsert(files, target_name, path),
         Blob |-> IF dup THEN Blob
                  ELSE Blob \cup {[oid |-> oid, url |-> files_url(target_name)]},
         ok |-> ~dup]

MaxOid == 2

lo_save_file(path) ==
    LET args == [path |-> path]
        w == lo_save(path)
    IN  /\ w.oid <= MaxOid
        /\ Counters' = w.Counters
        /\ files' = w.files
        /\ Blob' = w.Blob
        /\ last' = IF w.ok THEN Call("lo_save_file", args, "ok", w.oid)
                   ELSE Call("lo_save_file", args, "ConstraintError", NULL)
        /\ UNCHANGED <<CURRENT_ROLE, org, clin, rels, file_rels, accounts, messages, session>>

(***************************************************************************)
(* bootstrap_neo4j.py: main() seeds the accounts and the counter           *)
(***************************************************************************)
Account(password, person_id) == [password |-> password, person_id |-> person_id]

bootstrap ==
    /\ Admin' = IF "admin" \in DOMAIN Admin THEN Admin
                ELSE Upsert(Admin, "admin", Account("admin", NULL))
    /\ User' = IF "user1" \in DOMAIN User THEN User
               ELSE Upsert(User, "user1", Account("user123", NULL))
    /\ Counters' = IF Counters = <<>> THEN <<0>> ELSE Counters
    /\ last' = Call("bootstrap", <<>>, "ok", NULL)
    /\ UNCHANGED <<CURRENT_ROLE, org, clin, rels, file_rels, Blob, files, messages, session>>

(***************************************************************************)
(* login_backend.py                                                        *)
(***************************************************************************)
\* an Admin account of that name, whatever its password
check_admin_name_only(name, password) == name \in DOMAIN Admin

check_admin(name, password) == name \in DOMAIN Admin /\ Admin[name].password = password

check_user(name, password) == name \in DOMAIN User /\ User[name].password = password

\* a MERGE that sets the properties on every call
merge_on_create_or_match(tbl, name, acct) == Upsert(tbl, name, acct)

\* MERGE (x:label {name}) ON CREATE SET x.password, x.person_id ON MATCH SET x.password = x.password
merge_on_create(tbl, name, acct) == IF name \in DOMAIN tbl THEN tbl ELSE Upsert(tbl, name, acct)

insert_user(name, password, person_id, as_admin) ==
    LET args == [name |-> name, password |-> password, person_id |-> person_id,
                 as_admin |-> as_admin]
        acct == Account(password, IF person_id = NULL \/ person_id = "" THEN name ELSE person_id)
    IN  /\ Admin' = IF as_admin THEN merge_on_create(Admin, name, acct) ELSE Admin
        /\ User' = IF ~as_admin THEN merge_on_create(User, name, acct) ELSE User
        /\ last' = Call("insert_user", args, "ok", NULL)
        /\ UNCHANGED <<CURRENT_ROLE, org, clin, rels, file_rels, blobstore, messages, session>>

\* the values get_account_person_id(name) can return: the query matches the Admin and
\* the User node of that name and LIMIT 1 keeps either; a missing or empty person_id
\* gives None
account_person_ids(name) ==
    LET pids == {Admin[n].person_id : n \in {name} \cap DOMAIN Admin}
                \cup {User[n].person_id : n \in {name} \cap DOMAIN User}
    IN  IF pids = {} THEN {NULL}
        ELSE {IF pid = "" THEN NULL ELSE pid : pid \in pids}

is_doctor_person(person_id) == person_id \in DOMAIN Doctor

is_patient_person(person_id) == person_id \in DOMAIN Patient

change_own_credentials(old_name, role, new_name, new_password) ==
    LET args == [old_name |-> old_name, role |-> role, new_name |-> new_name,
                 new_password |-> new_password]
        has_name == new_name # NULL /\ new_name # ""
        has_pwd == new_password # NULL /\ new_password # ""
        tbl == IF role = "super" THEN Admin ELSE User
        renamed ==
            LET acct == [tbl[old_name] EXCEPT
                            !.password = IF has_pwd THEN new_password ELSE @]
            IN  Upsert(Remove(tbl, old_name), IF has_name THEN new_name ELSE old_name, acct)
        \* SET x.name = $new on a name another node of the label holds:
        \* the uniqueness constraint admin_name / user_name rejects the statement
        clash == has_name /\ new_name # old_name /\ new_name \in DOMAIN tbl
    IN  IF (~has_name /\ ~has_pwd) \/ old_name \notin DOMAIN tbl
        THEN /\ last' = Call("change_own_credentials", args, "ok", NULL)
             /\ UNCHANGED <<CURRENT_ROLE, graph, messages, session>>
        ELSE IF clash THEN Raise("change_own_credentials", args, "ConstraintError")
        ELSE /\ Admin' = IF role = "super" THEN renamed ELSE Admin
             /\ User' = IF role = "super" THEN User ELSE renamed
             /\ last' = Call("change_own_credentials", args, "ok", NULL)
             /\ UNCHANGED <<CURRENT_ROLE, org, clin, rels, file_rels, blobstore,
                            messages, session>>

(***************************************************************************)
(* login.py                                                                *)
(***************************************************************************)
NoSession == [login_name |-> NULL, role |-> NULL]

do_login(username, password) ==
    LET args == [username |-> username, password |-> password]
    IN  /\ session = NoSession
        /\ IF is_blank_s(username) \/ is_blank_s(password)
           THEN /\ last' = Call("do_login", args, "Login Failed", NULL)
                /\ UNCHANGED <<CURRENT_ROLE, session>>
           ELSE IF check_admin(username, password)
           THEN /\ CURRENT_ROLE' = "super"
                /\ session' = [login_name |-> username, role |-> "super"]
                /\ last' = Call("do_login", args, "ok", "super")
           ELSE IF check_user(username, password)
           THEN /\ CURRENT_ROLE' = "normal"
                /\ session' = [login_name |-> username, role |-> "normal"]
                /\ last' = Call("do_login", args, "ok", "normal")
           ELSE /\ last' = Call("do_login", args, "Login Failed", NULL)
                /\ UNCHANGED <<CURRENT_ROLE, session>>
        /\ UNCHANGED <<graph, messages>>

(***************************************************************************)
(* messaging_backend.py                                                    *)
(***************************************************************************)
\* the identities _normalize_identity(name, role) can return
normalize_identity(name, role) ==
    {LET person_id == IF pid = NULL THEN name ELSE pid
         ut == IF role = "super" /\ is_doctor_person(person_id) THEN "doctor"
               ELSE IF role = "normal" /\ is_patient_person(person_id) THEN "patient"
               ELSE "admin_only"
     IN  [user_type |-> ut, person_id |-> person_id, login_name |-> name, role |-> role]
     : pid \in account_person_ids(name)}

\* Python's order on the identifier strings of the model
str_rank(x) ==
    CASE x = "" -> 0 [] x = " " -> 1 [] x = "1" -> 2 [] x = "2" -> 3 [] x = "3" -> 4
      [] x = "admin" -> 5 [] x = "d1" -> 6 [] x = "d2" -> 7 [] x = "p1" -> 8
      [] x = "p2" -> 9 [] x = "user1" -> 10

\* the pair in call order
unsorted_pair(a, b) == <<a, b>>

\* sorted([a, b])
sorted_pair(a, b) == IF str_rank(a) <= str_rank(b) THEN <<a, b>> ELSE <<b, a>>

\* (text or "").strip() or None
clean_text(text) == IF is_blank_s(text) THEN NULL ELSE text

\* a store that overwrites the newest document instead of adding one
insert_one_replacing(coll, doc) ==
    IF coll = <<>> THEN <<doc>> ELSE [coll EXCEPT ![Len(coll)] = doc]

\* _messages.insert_one(doc)
insert_one(coll, doc) == Append(coll, doc)

MaxMsgs == 2

\* a check that lets every message through
nothing_to_send_never(text, file_path) == FALSE

\* (not text or text.strip() == "") and not file_path
nothing_to_send(text, file_path) == is_blank_s(text) /\ file_path = <<>>

send_message(login_name, role, to_person_id, text, file_path, now) ==
    LET args == [login_name |-> login_name, role |-> role, to_person_id |-> to_person_id,
                 text |-> text, file_path |-> file_path]
        has_file == file_path # <<>>
    IN  IF nothing_to_send(text, file_path) THEN Raise("send_message", args, "ValueError")
        ELSE \E me \in normalize_identity(login_name, role) :
          IF me.user_type \notin {"doctor", "patient"}
          THEN Raise("send_message", args, "PermissionError")
          ELSE LET w == lo_save(file_path)
                   \* file_url = f"files/{oid}": oid is an int, it holds no "/"
                   file_url == IF has_file THEN files_url(<<w.oid, <<>>>>) ELSE None
                   doc == [sender_id |-> me.person_id,
                           sender_type |-> me.user_type,
                           receiver_id |-> to_person_id,
                           receiver_type |-> IF me.user_type = "doctor" THEN "patient"
                                             ELSE "doctor",
                           text |-> clean_text(text),
                           file_url |-> file_url,
                           created_at |-> now,
                           participants |-> sorted_pair(me.person_id, to_person_id)]
               IN  /\ Len(messages) < MaxMsgs
                   /\ has_file => w.oid <= MaxOid
                   /\ IF has_file
                      THEN /\ Counters' = w.Counters
                           /\ files' = w.files
                           /\ Blob' = w.Blob
                      ELSE UNCHANGED blobstore
                   /\ IF has_file /\ ~w.ok
                      THEN /\ messages' = messages
                           /\ last' = Call("send_message", args, "ConstraintError", NULL)
                      ELSE /\ messages' = insert_one(messages, doc)
                           /\ last' = Call("send_message", args, "ok", Len(messages) + 1)
                   /\ UNCHANGED <<CURRENT_ROLE, org, clin, rels, file_rels, accounts, session>>

\* _messages.find({"participants": parts}): the positions of the matching documents
find_participants(parts) == {i \in 1..Len(messages) : messages[i].participants = parts}

RECURSIVE sort_created_at(_)
\* .sort("created_at", ASCENDING) over a set of positions: the earliest document first,
\* documents of one timestamp in insertion order
sort_created_at(S) ==
    IF S = {} THEN <<>>
    ELSE LET i == CHOOSE x \in S : \A z \in S :
                      \/ messages[x].created_at < messages[z].created_at
                      \/ (messages[x].created_at = messages[z].created_at /\ x <= z)
         IN  <<i>> \o sort_created_at(S \ {i})

\* a cursor without the cap
cursor_unlimited(q, n) == q

\* cursor.limit(n)
cursor_limit(q, n) == IF Len(q) <= n THEN q ELSE SubSeq(q, 1, n)

TicksPerSecond == 2

\* created_at.strftime("%Y-%m-%d %H:%M:%S UTC"): the fraction of a second is dropped
strftime(t) == t \div TicksPerSecond

\* the list get_conversation builds for a resolved identity
conversation(me, other_person_id, limit) ==
    IF me.user_type \notin {"doctor", "patient"} THEN <<>>
    ELSE LET parts == sorted_pair(me.person_id, other_person_id)
             cur == cursor_limit(sort_created_at(find_participants(parts)), limit)
         IN  [k \in 1..Len(cur) |->
                 [id |-> cur[k],
                  sender_id |-> messages[cur[k]].sender_id,
                  sender_type |-> messages[cur[k]].sender_type,
                  receiver_id |-> messages[cur[k]].receiver_id,
                  receiver_type |-> messages[cur[k]].receiver_type,
                  text |-> messages[cur[k]].text,
                  file_url |-> messages[cur[k]].file_url,
                  created_at |-> strftime(messages[cur[k]].created_at)]]

get_conversation(login_name, role, other_person_id, limit) ==
    LET args == [login_name |-> login_name, role |-> role,
                 other_person_id |-> other_person_id, limit |-> limit]
    IN  \E me \in normalize_identity(login_name, role) :
          /\ last' = Call("get_conversation", args, "ok",
                          conversation(me, other_person_id, limit))
          /\ UNCHANGED <<CURRENT_ROLE, graph, messages, session>>

(***************************************************************************)
(* Initial state: a database on which bootstrap_neo4j.py has run once, and *)
(* a freshly started process (db._CURRENT_ROLE = "normal", login window).  *)
(***************************************************************************)
InitEmpty ==
    /\ CURRENT_ROLE = "normal"
    /\ Clinic = EmptyTbl /\ Department = EmptyTbl /\ Doctor = EmptyTbl /\ Patient = EmptyTbl
    /\ Appointment = EmptyTbl /\ Observation = EmptyTbl /\ Diagnosis = EmptyTbl
    /\ rels = {} /\ file_rels = {}
    /\ Blob = {} /\ files = EmptyTbl
    /\ messages = <<>>
    /\ session = NoSession
    /\ last = Call("start", <<>>, "ok", NULL)

Init ==
    /\ InitEmpty
    /\ Counters = <<0>>
    /\ Admin = Upsert(EmptyTbl, "admin", Account("admin", NULL))
    /\ User = Upsert(EmptyTbl, "user1", Account("user123", NULL))

\* texts typed into the date fields
Y2023 == PyStr(<<"2", "0", "2", "3">>)
Y2024 == PyStr(<<"2", "0", "2", "4">>)
M2 == PyStr(<<"2">>)
D28 == PyStr(<<"2", "8">>)
D29 == PyStr(<<"2", "9">>)
D30 == PyStr(<<"3", "0">>)
Empty == PyStr(<<>>)

(***************************************************************************)
(* Spec: every write handler of backend.py on one node per label, called   *)
(* under both roles.                                                       *)
(***************************************************************************)
Next ==
    \/ \E r \in {"super", "normal", "admin"} : set_dsn(r)
    \/ clinic_insert("1", "a", "")
    \/ clinic_update("1", "b", "")
    \/ clinic_delete("1")
    \/ \E cli \in {"", "1"} : department_insert("1", "a", cli)
    \/ department_update("1", "b", "")
    \/ department_delete("1")
    \/ doctor_insert("1", "a", "")
    \/ doctor_update("1", "", "b")
    \/ doctor_delete("1")
    \/ patient_insert("1", "a", "")
    \/ patient_update("1", "", "b")
    \/ patient_delete("1")
    \/ \E d \in {D29, D30} : appointment_insert("1", Y2024, M2, d, "", "", "")
    \/ \E y \in {Empty, Y2023} : appointment_update("1", y, Empty, D28, "", "", "")
    \/ appointment_delete("1")
    \/ observation_insert("1", Empty, Empty, Empty, "", "c", None)
    \/ \E txt \in {NULL, "e"} : observation_update("1", Empty, Empty, Empty, "", txt, None)
    \/ observation_delete("1")
    \/ diagnosis_insert("1", Empty, Empty, Empty, "", "", None)
    \/ diagnosis_update("1", Empty, M2, Empty, "", NULL, None)
    \/ diagnosis_delete("1")

Spec == Init /\ [][Next]_vars

EntityWrites ==
    {"clinic_insert", "clinic_update", "clinic_delete",
     "department_insert", "department_update", "department_delete",
     "doctor_insert", "doctor_update", "doctor_delete",
     "patient_insert", "patient_update", "patient_delete",
     "appointment_insert", "appointment_update", "appointment_delete",
     "observation_insert", "observation_update", "observation_delete",
     "diagnosis_insert", "diagnosis_update", "diagnosis_delete"}

\* C1: an entity write handler called while the role is not 'super' raises
\* PermissionError and leaves every node, relationship and property as it was.
C1_NonAdminWriteRejected ==
    [][(CURRENT_ROLE # "super" /\ last'.op \in EntityWrites)
         => (last'.out = "PermissionError" /\ UNCHANGED <<graph, messages>>)]_vars

\* C1 witness: a delete of an existing appointment was refused under role 'normal'
C1_Witness ==
    /\ CURRENT_ROLE = "normal"
    /\ last.op = "appointment_delete"
    /\ last.out = "PermissionError"
    /\ last.args.appoint_id \in DOMAIN Appointment
    /\ DOMAIN Clinic # {} /\ DOMAIN Department # {}

(***************************************************************************)
(* SpecBlob: the file allocator on a database that may not have been       *)
(* bootstrapped yet, with the seed script and the handlers that link and   *)
(* delete nodes holding a file.                                            *)
(***************************************************************************)
InitBlob ==
    /\ InitEmpty
    /\ Counters = <<>>
    /\ Admin = EmptyTbl
    /\ User = EmptyTbl

\* source paths picked in the file dialog
PathPdf == <<"d", "/", "s", ".", "p", "d", "f">>
PathNoExt == <<"d", ".", "x", "/", "s">>
PathOddExt == <<"s", ".", "p", "~">>
Paths == {PathPdf, PathNoExt, PathOddExt}

FileOids == {None} \cup {PyInt(n) : n \in 1..MaxOid}

NextBlob ==
    \/ bootstrap
    \/ \E r \in {"super", "normal"} : set_dsn(r)
    \/ \E path \in Paths : lo_save_file(path)
    \/ \E f \in FileOids : observation_insert("1", Empty, Empty, Empty, "", "", f)
    \/ observation_delete("1")
    \/ \E f \in FileOids : diagnosis_update("1", Empty, Empty, Empty, "", NULL, f)
    \/ diagnosis_insert("1", Empty, Empty, Empty, "1", "", None)
    \/ diagnosis_delete("1")

SpecBlob == InitBlob /\ [][NextBlob]_vars

\* the value of Counters.lo_oid, 0 while the node is missing
lo_oid == IF Counters = <<>> THEN 0 ELSE Counters[1]

\* C2: while the role is 'normal' no operation changes the graph store; lo_save_file
\* under role 'normal' is rejected without advancing Counters, writing a file or
\* creating a Blob node.
C2_NormalRoleWritesNothing ==
    [][(CURRENT_ROLE = "normal"
          /\ last'.op \in EntityWrites \cup {"lo_save_file", "send_message"})
         => UNCHANGED graph]_vars

\* C4: each lo_save_file returns a handle greater than every handle handed out before
\* (the Blob nodes keep them all), and no operation lowers the Counters value.
C4_HandlesStrictlyIncrease ==
    [][/\ lo_oid' >= lo_oid
       /\ Blob \subseteq Blob'
       /\ (last'.op = "lo_save_file" /\ last'.out = "ok") =>
             /\ last'.ret > lo_oid
             /\ \A b \in Blob : last'.ret > b.oid
             /\ \E b \in Blob' \ Blob : b.oid = last'.ret]_vars

\* C4 witness: a second handle was handed out after the seed script ran again and
\* the observation holding the first file was deleted
C4_Witness ==
    /\ last.op = "lo_save_file" /\ last.out = "ok" /\ last.ret = 2
    /\ Cardinality(Blob) = 2
    /\ DOMAIN Admin # {}

(***************************************************************************)
(* SpecMsg: the message log between doctor d1 (login "doc") and patient p1 *)
(* (login "p1").  The database holds the two persons and their accounts,   *)
(* as doctor_insert, patient_insert and insert_user leave them.            *)
(***************************************************************************)
InitMsg ==
    /\ CURRENT_ROLE = "normal"
    /\ Clinic = EmptyTbl /\ Department = EmptyTbl
    /\ Doctor = Upsert(EmptyTbl, "d1", [name |-> "a"])
    /\ Patient = Upsert(EmptyTbl, "p1", [name |-> "b"])
    /\ Appointment = EmptyTbl /\ Observation = EmptyTbl /\ Diagnosis = EmptyTbl
    /\ rels = {Rel("ASSIGNED_TO", "Patient", "p1", "d1")}
    /\ file_rels = {}
    /\ Blob = {} /\ files = EmptyTbl /\ Counters = <<0>>
    /\ Admin = Upsert(Upsert(EmptyTbl, "admin", Account("admin", NULL)),
                      "doc", Account("pw", "d1"))
    /\ User = Upsert(Upsert(EmptyTbl, "user1", Account("user123", NULL)),
                     "p1", Account("pw", "p1"))
    /\ messages = <<>>
    /\ session = NoSession
    /\ last = Call("start", <<>>, "ok", NULL)

MaxTime == 1
MaxLimit == 2

MsgLogins == {"doc", "p1"}
MsgPersons == {"d1", "p1"}

NextMsg ==
    \/ \E r \in {"super", "normal"} : set_dsn(r)
    \/ \E l \in MsgLogins, to \in MsgPersons, f \in {<<>>, PathPdf}, now \in 0..MaxTime :
          send_message(l, CURRENT_ROLE, to, "hi", f, now)
    \/ \E l \in MsgLogins, other \in MsgPersons, limit \in {1, MaxLimit} :
          get_conversation(l, CURRENT_ROLE, other, limit)

SpecMsg == InitMsg /\ [][NextMsg]_vars

\* C6: a doctor and a patient who resolve to their clinical identities read the same
\* conversation, message for message and in the same order, whoever sent each message.
C6_BothSidesSameConversation ==
    \A dl \in MsgLogins, pl \in MsgLogins :
      \A md \in normalize_identity(dl, "super"), mp \in normalize_identity(pl, "normal") :
        (md.user_type = "doctor" /\ mp.user_type = "patient") =>
           \A limit \in 1..MaxLimit :
              conversation(md, mp.person_id, limit) = conversation(mp, md.person_id, limit)

\* C6 witness: the patient has read a conversation holding a message of each side
C6_Witness ==
    /\ last.op = "get_conversation"
    /\ last.args.login_name = "p1" /\ last.args.other_person_id = "d1"
    /\ Len(last.ret) = 2
    /\ last.ret[1].sender_id = "d1" /\ last.ret[2].sender_id = "p1"

C8_AppendOnly ==
    [][/\ Len(messages') >= Len(messages)
       /\ \A i \in 1..Len(messages) : messages'[i] = messages[i]
       /\ IF last'.op = "send_message" /\ last'.out = "ok"
          THEN Len(messages') = Len(messages) + 1
          ELSE messages' = messages]_vars

\* C8 witness: a second message was stored behind the first
C8_Witness ==
    /\ last.op = "send_message" /\ last.out = "ok"
    /\ Len(messages) = 2
    /\ messages[1].sender_id # messages[2].sender_id

(***************************************************************************)
(* SpecOrg: an administrator maintains clinics, departments, doctors and   *)
(* patients.                                                               *)
(***************************************************************************)
ClinicIds == {"1", "2"}
DoctorIds == {"d1", "d2"}

NextOrg ==
    \/ do_login("admin", "admin")
    \/ \E id \in ClinicIds : clinic_insert(id, "a", "")
    \/ \E id \in ClinicIds, nm \in {"", "b"}, addr \in {"", "x"} : clinic_update(id, nm, addr)
    \/ \E id \in ClinicIds : clinic_delete(id)
    \/ \E cli \in {""} \cup ClinicIds : department_insert("1", "a", cli)
    \/ \E nm \in {"", "b"}, cli \in {""} \cup ClinicIds : department_update("1", nm, cli)
    \/ department_delete("1")
    \/ \E id \in DoctorIds, dept \in {"", "1"} : doctor_insert(id, "a", dept)
    \/ \E id \in DoctorIds, dept \in {"", "1"} : doctor_update(id, dept, "")
    \/ \E id \in DoctorIds : doctor_delete(id)
    \/ \E doc \in {""} \cup DoctorIds : patient_insert("p1", "a", doc)
    \/ \E doc \in {""} \cup DoctorIds, nm \in {"", "b"} : patient_update("p1", doc, nm)
    \/ patient_delete("p1")

SpecOrg == Init /\ [][NextOrg]_vars

\* C3: every source node has at most one outgoing relationship of each type, also
\* after an insert is called again for an existing id with another link target.
C3_SingleOutgoingEdge ==
    \A r1, r2 \in rels \cup file_rels :
        (r1.type = r2.type /\ r1.from = r2.from /\ r1.src = r2.src) => r1 = r2

(***************************************************************************)
(* SpecClin: an administrator records and amends clinics, appointments,    *)
(* observations and diagnoses, leaving some update arguments blank.        *)
(***************************************************************************)
NextClin ==
    \/ do_login("admin", "admin")
    \/ clinic_insert("1", "a", "x")
    \/ \E nm \in {"", "b"}, addr \in {NULL, " "} : clinic_update("1", nm, addr)
    \/ appointment_insert("1", Empty, Empty, Empty, "l", "", "")
    \/ \E m \in {Empty, M2}, loc \in {"", "k"} :
           appointment_update("1", Empty, m, Empty, loc, "", "")
    \/ \E ap \in {"", "1"}, txt \in {"", "c"} :
           observation_insert("1", Empty, Empty, Empty, ap, txt, None)
    \/ \E ap \in {"", "1"}, txt \in {NULL, "", "e"} :
           observation_update("1", Empty, Empty, Empty, ap, txt, None)
    \/ diagnosis_insert("1", Empty, Empty, Empty, "", "c", None)
    \/ \E ob \in {"", "1"}, txt \in {NULL, ""} :
           diagnosis_update("1", Empty, Empty, Empty, ob, txt, None)

SpecClin == Init /\ [][NextClin]_vars

\* a blank text argument leaves the stored field as it was
KeptField(arg, old, new) == is_blank_s(arg) => new = old

\* a blank date argument leaves the stored date part as it was
KeptPart(arg, old, new) == is_blank(arg) => new = old

\* a blank link argument leaves the node's relationships of that type as they were
KeptLink(arg, type, from, src) ==
    is_blank_s(arg) => Out(rels', type, from, src) = Out(rels, type, from, src)

\* C9: in every entity update, a field passed as None or blank keeps its prior
\* value and a link argument passed as None or blank leaves the relationship in place.
C9_BlankArgumentsKeep ==
    [][LET a == last'.args
       IN  last'.out = "ok" =>
           /\ (last'.op = "clinic_update" /\ a.cli_id \in DOMAIN Clinic) =>
                 /\ KeptField(a.cli_name, Clinic[a.cli_id].cli_name, Clinic'[a.cli_id].cli_name)
                 /\ KeptField(a.address, Clinic[a.cli_id].address, Clinic'[a.cli_id].address)
           /\ last'.op = "appointment_update" =>
                 LET o == Appointment[a.appoint_id]
                     n == Appointment'[a.appoint_id]
                 IN  /\ KeptPart(a.year, o.appoint_year, n.appoint_year)
                     /\ KeptPart(a.month, o.appoint_month, n.appoint_month)
                     /\ KeptPart(a.day, o.appoint_day, n.appoint_day)
                     /\ KeptField(a.location, o.appoint_location, n.appoint_location)
                     /\ KeptLink(a.patient_personnumer, "PATIENT", "Appointment", a.appoint_id)
                     /\ KeptLink(a.doctor_personnumer, "DOCTOR", "Appointment", a.appoint_id)
           /\ last'.op = "observation_update" =>
                 LET o == Observation[a.obser_id]
                     n == Observation'[a.obser_id]
                 IN  /\ KeptPart(a.year, o.obs_year, n.obs_year)
                     /\ KeptPart(a.month, o.obs_month, n.obs_month)
                     /\ KeptPart(a.day, o.obs_day, n.obs_day)
                     /\ KeptField(a.comment_text, o.obs_comment_text, n.obs_comment_text)
                     /\ KeptLink(a.appoint_id, "OF_APPOINTMENT", "Observation", a.obser_id)
                     /\ a.file_oid = None => file_rels' = file_rels
           /\ last'.op = "diagnosis_update" =>
                 LET o == Diagnosis[a.diagn_id]
                     n == Diagnosis'[a.diagn_id]
                 IN  /\ KeptPart(a.year, o.diagn_year, n.diagn_year)
                     /\ KeptPart(a.month, o.diagn_month, n.diagn_month)
                     /\ KeptPart(a.day, o.diagn_day, n.diagn_day)
                     /\ KeptField(a.comment_text, o.diagn_comment_text, n.diagn_comment_text)
                     /\ KeptLink(a.obser_id, "OF_OBSERVATION", "Diagnosis", a.diagn_id)
                     /\ a.file_oid = None => file_rels' = file_rels
      ]_vars

(***************************************************************************)
(* SpecDate: an administrator records appointments, observations and       *)
(* diagnoses and amends their dates, one or several parts at a time.       *)
(***************************************************************************)
NotANumber == PyStr(<<"x">>)
Months == {Empty, M2}

NextDate ==
    \/ do_login("admin", "admin")
    \/ \E y \in {Y2024, NotANumber}, m \in Months, d \in {D29, D30} :
           appointment_insert("1", y, m, d, "", "", "")
    \/ \E y \in {Empty, Y2023}, m \in Months \cup {NotANumber}, d \in {Empty, D29} :
           appointment_update("1", y, m, d, "", "", "")
    \/ \E d \in {Empty, D30} : observation_insert("1", Empty, Empty, d, "", "", None)
    \/ \E m \in Months, d \in {Empty, D29} :
           observation_update("1", Empty, m, d, "", NULL, None)
    \/ \E y \in {Y2023, Y2024}, d \in {Empty, D29} :
           diagnosis_insert("1", y, Empty, d, "", "", None)
    \/ \E m \in Months : diagnosis_update("1", Empty, m, Empty, "", NULL, None)

SpecDate == Init /\ [][NextDate]_vars

DatedOps == {"appointment_insert", "appointment_update", "observation_insert",
             "observation_update", "diagnosis_insert", "diagnosis_update"}

StoredDatesValid ==
    /\ \A id \in DOMAIN Appointment :
           validate_date_parts(Appointment[id].appoint_year, Appointment[id].appoint_month,
                               Appointment[id].appoint_day).ok
    /\ \A id \in DOMAIN Observation :
           validate_date_parts(Observation[id].obs_year, Observation[id].obs_month,
                               Observation[id].obs_day).ok
    /\ \A id \in DOMAIN Diagnosis :
           validate_date_parts(Diagnosis[id].diagn_year, Diagnosis[id].diagn_month,
                               Diagnosis[id].diagn_day).ok

\* C10: after any sequence of appointment, observation and diagnosis inserts and
\* updates the year, month and day stored on every node pass validate_date_parts,
\* and an insert or update rejected with ValueError stores nothing.
C10_StoredDatesValid ==
    /\ []StoredDatesValid
    /\ [][(last'.op \in DatedOps /\ last'.out = "ValueError") => UNCHANGED graph]_vars

\* an update that supplied the month alone completed a stored date
C10_Witness ==
    /\ last.op = "diagnosis_update" /\ last.out = "ok"
    /\ is_blank(last.args.year) /\ ~is_blank(last.args.month) /\ is_blank(last.args.day)
    /\ "1" \in DOMAIN Diagnosis
    /\ Diagnosis["1"].diagn_year # None
    /\ Diagnosis["1"].diagn_month # None
    /\ Diagnosis["1"].diagn_day # None

(***************************************************************************)
(* SpecValidate: validate_date_parts called on fully specified dates.      *)
(***************************************************************************)
TriedYears == {1899, 1900, 2000, 2023, 2024, 2100, 3000, 3001}
TriedMonths == 0..13
TriedDays == 0..32

\* one call per behaviour: the function keeps no state between calls
validate_date_parts_call(year, month, day) ==
    LET v == validate_date_parts(year, month, day)
    IN  /\ last.op = "start"
        /\ last' = Call("validate_date_parts", [year |-> year, month |-> month, day |-> day],
                        IF v.ok THEN "ok" ELSE "ValueError",
                        IF v.ok THEN <<v.y, v.m, v.d>> ELSE NULL)
        /\ UNCHANGED <<CURRENT_ROLE, graph, messages, session>>

NextValidate ==
    \E year \in {PyInt(n) : n \in TriedYears} \cup {Y2023, Y2024},
       month \in {PyInt(n) : n \in TriedMonths} \cup {M2},
       day \in {PyInt(n) : n \in TriedDays} \cup {D29, D30} :
        validate_date_parts_call(year, month, day)

SpecValidate == Init /\ [][NextValidate]_vars

\* the Gregorian calendar, by a table of month lengths
GregorianDays(y, m) ==
    LET table == <<31, 28, 31, 30, 31, 30, 31, 31, 30, 31, 30, 31>>
        leap == (y % 400 = 0) \/ (y % 4 = 0 /\ y % 100 # 0)
    IN  IF m = 2 /\ leap THEN 29 ELSE table[m]

GregorianDate(y, m, d) == m \in 1..12 /\ d >= 1 /\ d <= GregorianDays(y, m)

\* C11: for a fully specified year, month and day validate_date_parts accepts the
\* triple exactly when 1900 <= year <= 3000 and it is a valid Gregorian calendar
\* date, and raises ValueError in every other case.
C11_AcceptsExactlyValidDates ==
    last.op = "validate_date_parts" =>
        LET y == to_int(last.args.year).v
            m == to_int(last.args.month).v
            d == to_int(last.args.day).v
            valid == 1900 <= y /\ y <= 3000 /\ GregorianDate(y, m, d)
        IN  /\ last.out \in {"ok", "ValueError"}
            /\ last.out = "ok" <=> valid
            /\ last.out = "ok" => last.ret = <<PyInt(y), PyInt(m), PyInt(d)>>

\* the leap day of 2024, given as text, was accepted
C11_Witness ==
    /\ last.op = "validate_date_parts" /\ last.out = "ok"
    /\ last.args = [year |-> Y2024, month |-> M2, day |-> D29]

\* C12: there is at most one node per identifier and entity type; an insert of an
\* identifier that already exists does not fail and does not create a second
\* node, it overwrites the fields of the existing node.
C12_ReinsertOverwrites ==
    [][LET a == last'.args
       IN  /\ (last'.op = "clinic_insert" /\ a.cli_id \in DOMAIN Clinic) =>
                 /\ last'.out \in {"ok", "PermissionError"}
                 /\ last'.out = "ok" =>
                        /\ DOMAIN Clinic' = DOMAIN Clinic
                        /\ Clinic'[a.cli_id] = [cli_name |-> a.cli_name,
                                                address |-> or_None(a.address)]
           /\ (last'.op = "department_insert" /\ a.dept_id \in DOMAIN Department) =>
                 /\ last'.out \in {"ok", "PermissionError"}
                 /\ last'.out = "ok" =>
                        /\ DOMAIN Department' = DOMAIN Department
                        /\ Department'[a.dept_id].dept_name = a.dept_name
           /\ (last'.op = "doctor_insert" /\ a.doctor_personnumer \in DOMAIN Doctor) =>
                 /\ last'.out \in {"ok", "PermissionError"}
                 /\ last'.out = "ok" =>
                        /\ DOMAIN Doctor' = DOMAIN Doctor
                        /\ Doctor'[a.doctor_personnumer].name = a.doctor_name
           /\ (last'.op = "patient_insert" /\ a.patient_personnumer \in DOMAIN Patient) =>
                 /\ last'.out \in {"ok", "PermissionError"}
                 /\ last'.out = "ok" =>
                        /\ DOMAIN Patient' = DOMAIN Patient
                        /\ Patient'[a.patient_personnumer].name = a.patient_name
      ]_vars

(***************************************************************************)
(* SpecLink: an administrator inserts entities whose link targets may not  *)
(* exist (identifier "2" and file handle 1 are never created).             *)
(***************************************************************************)
Targets == {"1", "2"}

NextLink ==
    \/ do_login("admin", "admin")
    \/ clinic_insert("1", "a", "")
    \/ \E cli \in Targets : department_insert("1", "a", cli)
    \/ \E dept \in Targets : doctor_insert("1", "a", dept)
    \/ \E doc \in Targets : patient_insert("1", "a", doc)
    \/ \E pat \in {"", "2"}, doc \in Targets :
           appointment_insert("1", Empty, Empty, Empty, "", pat, doc)
    \/ \E ap \in Targets, f \in {None, PyInt(1)} :
           observation_insert("1", Empty, Empty, Empty, ap, "c", f)
    \/ \E ob \in Targets, f \in {None, PyInt(1)} :
           diagnosis_insert("1", Empty, Empty, Empty, ob, "c", f)

SpecLink == Init /\ [][NextLink]_vars

\* the insert went through and stored its fields on node id of table T
Stored(T, id, fields) == last'.out = "ok" /\ id \in DOMAIN T /\ T[id] = fields

\* node id has no relationship of this type to the target; a node that is new has none at all
Omitted(R, type, from, id, target, existed) ==
    /\ Rel(type, from, id, target) \notin R
    /\ ~existed => Out(R, type, from, id) = {}

\* C13: an insert whose link target does not exist raises no error; the node is
\* created or updated with its fields and is left without that relationship.
C13_MissingTargetOmitsLink ==
    [][LET a == last'.args
       IN  CURRENT_ROLE = "super" =>
           /\ (last'.op = "department_insert" /\ a.cli_id \notin DOMAIN Clinic) =>
                 /\ Stored(Department', a.dept_id, [dept_name |-> a.dept_name])
                 /\ Omitted(rels', "BELONGS_TO", "Department", a.dept_id, a.cli_id,
                            a.dept_id \in DOMAIN Department)
           /\ (last'.op = "doctor_insert" /\ a.dept_id \notin DOMAIN Department) =>
                 /\ Stored(Doctor', a.doctor_personnumer, [name |-> a.doctor_name])
                 /\ Omitted(rels', "WORKS_IN", "Doctor", a.doctor_personnumer, a.dept_id,
                            a.doctor_personnumer \in DOMAIN Doctor)
           /\ (last'.op = "patient_insert" /\ a.doctor_personnumer \notin DOMAIN Doctor) =>
                 /\ Stored(Patient', a.patient_personnumer, [name |-> a.patient_name])
                 /\ Omitted(rels', "ASSIGNED_TO", "Patient", a.patient_personnumer,
                            a.doctor_personnumer, a.patient_personnumer \in DOMAIN Patient)
           /\ last'.op = "appointment_insert" =>
                 LET fields == [appoint_year |-> None, appoint_month |-> None,
                                appoint_day |-> None, appoint_location |-> or_None(a.location)]
                     existed == a.appoint_id \in DOMAIN Appointment
                 IN  /\ (a.patient_personnumer # "" /\ a.patient_personnumer \notin DOMAIN Patient) =>
                            /\ Stored(Appointment', a.appoint_id, fields)
                            /\ Omitted(rels', "PATIENT", "Appointment", a.appoint_id,
                                       a.patient_personnumer, existed)
                     /\ a.doctor_personnumer \notin DOMAIN Doctor =>
                            /\ Stored(Appointment', a.appoint_id, fields)
                            /\ Omitted(rels', "DOCTOR", "Appointment", a.appoint_id,
                                       a.doctor_personnumer, existed)
           /\ last'.op = "observation_insert" =>
                 LET fields == [obs_year |-> None, obs_month |-> None, obs_day |-> None,
                                obs_comment_text |-> or_None(a.comment_text)]
                     existed == a.obser_id \in DOMAIN Observation
                 IN  /\ a.appoint_id \notin DOMAIN Appointment =>
                            /\ Stored(Observation', a.obser_id, fields)
                            /\ Omitted(rels', "OF_APPOINTMENT", "Observation", a.obser_id,
                                       a.appoint_id, existed)
                     /\ (a.file_oid # None /\ a.file_oid.v \notin BlobOids) =>
                            /\ Stored(Observation', a.obser_id, fields)
                            /\ Omitted(file_rels', "FILE", "Observation", a.obser_id,
                                       a.file_oid.v, existed)
           /\ last'.op = "diagnosis_insert" =>
                 LET fields == [diagn_year |-> None, diagn_month |-> None, diagn_day |-> None,
                                diagn_comment_text |-> or_None(a.comment_text)]
                     existed == a.diagn_id \in DOMAIN Diagnosis
                 IN  /\ a.obser_id \notin DOMAIN Observation =>
                            /\ Stored(Diagnosis', a.diagn_id, fields)
                            /\ Omitted(rels', "OF_OBSERVATION", "Diagnosis", a.diagn_id,
                                       a.obser_id, existed)
                     /\ (a.file_oid # None /\ a.file_oid.v \notin BlobOids) =>
                            /\ Stored(Diagnosis', a.diagn_id, fields)
                            /\ Omitted(file_rels', "FILE", "Diagnosis", a.diagn_id,
                                       a.file_oid.v, existed)
      ]_vars

\* department 1, already in clinic 1, was inserted again with the missing clinic 2
C13_Witness ==
    /\ last.op = "department_insert" /\ last.out = "ok" /\ last.args.cli_id = "2"
    /\ "2" \notin DOMAIN Clinic
    /\ "1" \in DOMAIN Department
    /\ Rel("BELONGS_TO", "Department", "1", "1") \in rels

\* the entity an update call names does not exist
UpdateOfMissing(call) ==
    LET a == call.args
    IN  \/ call.op = "clinic_update" /\ a.cli_id \notin DOMAIN Clinic
        \/ call.op = "department_update" /\ a.dept_id \notin DOMAIN Department
        \/ call.op = "doctor_update" /\ a.doctor_personnumer \notin DOMAIN Doctor
        \/ call.op = "patient_update" /\ a.patient_personnumer \notin DOMAIN Patient
        \/ call.op = "appointment_update" /\ a.appoint_id \notin DOMAIN Appointment
        \/ call.op = "observation_update" /\ a.obser_id \notin DOMAIN Observation
        \/ call.op = "diagnosis_update" /\ a.diagn_id \notin DOMAIN Diagnosis

\* C14: every update operation fails with an error, and writes nothing, when the
\* entity it is asked to update does not exist.
C14_UpdateOfMissingFails ==
    [][UpdateOfMissing(last') => (last'.out # "ok" /\ UNCHANGED graph)]_vars

(***************************************************************************)
(* Updates interrupted between statements.  db.get_conn yields a plain     *)
(* session and every s.run(...) is its own auto-commit transaction, so a   *)
(* statement that has run stays committed when a later statement of the    *)
(* same handler raises (here: the connection is lost).                     *)
(***************************************************************************)
\* a handler whose statements share one transaction: the failure undoes them
rolled_back(committed, before) == before

\* what an earlier statement wrote, after a later statement of the handler raised
after_failure(committed, before) == committed

\* department_update whose link statement raises
department_update_interrupted(dept_id, dept_name, cli_id) ==
    LET args == [dept_id |-> dept_id, dept_name |-> dept_name, cli_id |-> cli_id]
        exists == dept_id \in DOMAIN Department
    IN  /\ ~require_admin_raises
        /\ ~is_blank_s(cli_id)
        /\ Department' =
             after_failure(IF exists /\ ~is_blank_s(dept_name)
                           THEN [Department EXCEPT ![dept_id] = [dept_name |-> dept_name]]
                           ELSE Department,
                           Department)
        /\ last' = Call("department_update", args, "ServiceUnavailable", NULL)
        /\ UNCHANGED <<CURRENT_ROLE, Clinic, Doctor, Patient, clin, rels, file_rels,
                       blobstore, accounts, messages, session>>

\* appointment_update whose first link statement (PATIENT) raises
appointment_update_interrupted(appoint_id, year, month, day, location, patient_personnumer, doctor_personnumer) ==
    LET args == [appoint_id |-> appoint_id, year |-> year, month |-> month, day |-> day,
                 location |-> location, patient_personnumer |-> patient_personnumer,
                 doctor_personnumer |-> doctor_personnumer]
        y_in == date_in(year)
        m_in == date_in(month)
        d_in == date_in(day)
        old == Appointment[appoint_id]
    IN  /\ ~require_admin_raises
        /\ ~(date_in_raises(year) \/ date_in_raises(month) \/ date_in_raises(day))
        /\ appoint_id \in DOMAIN Appointment
        /\ validate_date_parts(merged_part(y_in, old.appoint_year),
                               merged_part(m_in, old.appoint_month),
                               merged_part(d_in, old.appoint_day)).ok
        /\ ~is_blank_s(patient_personnumer)
        /\ Appointment' =
             after_failure([Appointment EXCEPT ![appoint_id] =
                              [appoint_year |-> set_part(y_in, @.appoint_year),
                               appoint_month |-> set_part(m_in, @.appoint_month),
                               appoint_day |-> set_part(d_in, @.appoint_day),
                               appoint_location |->
                                   IF is_blank_s(location) THEN @.appoint_location
                                   ELSE location]],
                           Appointment)
        /\ last' = Call("appointment_update", args, "ServiceUnavailable", NULL)
        /\ UNCHANGED <<CURRENT_ROLE, org, Observation, Diagnosis, rels, file_rels,
                       blobstore, accounts, messages, session>>

(***************************************************************************)
(* SpecFail: an administrator re-points departments and appointments while *)
(* the connection may drop between two statements of an update.            *)
(***************************************************************************)
NextFail ==
    \/ do_login("admin", "admin")
    \/ \E id \in {"1", "2"} : clinic_insert(id, "a", "")
    \/ department_insert("1", "a", "1")
    \/ \E nm \in {"", "b"} : department_update("1", nm, "2")
    \/ \E nm \in {"", "b"} : department_update_interrupted("1", nm, "2")
    \/ \E id \in {"1", "2"} : patient_insert(id, "a", "")
    \/ appointment_insert("1", Empty, Empty, Empty, "l", "1", "")
    \/ \E m \in {Empty, M2}, loc \in {"", "k"} :
           appointment_update("1", Empty, m, Empty, loc, "2", "")
    \/ \E m \in {Empty, M2}, loc \in {"", "k"} :
           appointment_update_interrupted("1", Empty, m, Empty, loc, "2", "")

SpecFail == Init /\ [][NextFail]_vars

\* C15: an update runs as separate statements with no enclosing transaction: when
\* it fails after the property statement and before the link statement, the new
\* field values persist, the relationship still points to the old target and
\* nothing rolls the fields back.
C15_PartialUpdatePersists ==
    [][LET a == last'.args
       IN  last'.out = "ServiceUnavailable" =>
           /\ rels' = rels
           /\ (last'.op = "department_update" /\ a.dept_id \in DOMAIN Department
                 /\ ~is_blank_s(a.dept_name)) =>
                 Department'[a.dept_id].dept_name = a.dept_name
           /\ last'.op = "appointment_update" =>
                 /\ ~is_blank_s(a.location) =>
                        Appointment'[a.appoint_id].appoint_location = a.location
                 /\ ~is_blank(a.month) =>
                        Appointment'[a.appoint_id].appoint_month = to_int(a.month)
      ]_vars

\* department 1 carries its new name while it still belongs to clinic 1, not clinic 2
C15_Witness ==
    /\ last.op = "department_update" /\ last.out = "ServiceUnavailable"
    /\ last.args.dept_name = "b" /\ last.args.cli_id = "2"
    /\ "2" \in DOMAIN Clinic
    /\ "1" \in DOMAIN Department /\ Department["1"].dept_name = "b"
    /\ Out(rels, "BELONGS_TO", "Department", "1") = {Rel("BELONGS_TO", "Department", "1", "1")}

\* C16: for every message sent with an attachment the stored file_url is the path
\* files/<handle><ext> of the file lo_save_file wrote, that is the url of the Blob
\* node created for that handle, whatever the extension of the original file.
C16_FileUrlIsBlobUrl ==
    \A i \in 1..Len(messages) :
        messages[i].file_url # None =>
            \E b \in Blob : /\ b.url = messages[i].file_url
                            /\ b.url.name \in DOMAIN files

(***************************************************************************)
(* SpecIdent: people register, rename their login and have their identity  *)
(* resolved, in a database with doctor d1 (login doc) and patient p1.      *)
(***************************************************************************)
\* a call of messaging_backend._normalize_identity, as MainInterface.__init__,
\* send_message and get_conversation make it
normalize_identity_call(name, role) ==
    \E me \in normalize_identity(name, role) :
        /\ last' = Call("_normalize_identity", [name |-> name, role |-> role], "ok", me)
        /\ UNCHANGED <<CURRENT_ROLE, graph, messages, session>>

LoginNames == {"admin", "doc", "p1", "x"}
Roles == {"super", "normal"}

NextIdent ==
    \/ \E name \in {"doc", "x"}, pw \in {"pw", "q"}, as_admin \in BOOLEAN :
           insert_user(name, pw, name, as_admin)
    \/ \E old \in LoginNames, role \in Roles, new \in {"admin", "x"} :
           change_own_credentials(old, role, new, NULL)
    \/ \E name \in LoginNames, role \in Roles : normalize_identity_call(name, role)

SpecIdent == InitMsg /\ [][NextIdent]_vars

\* the account a login name and a role denote
LoginTable(role) == IF role = "super" THEN Admin ELSE User

\* C17: identity resolution gives 'doctor' exactly when the role is 'super' and the
\* resolved person id is an existing Doctor id, 'patient' exactly when the role is
\* 'normal' and it is an existing Patient id, 'admin_only' otherwise; the resolved
\* person id is the account's person_id, or the login name when it has none.
C17_IdentityResolution ==
    last.op = "_normalize_identity" =>
        LET me == last.ret
            name == last.args.name
            role == last.args.role
            tbl == LoginTable(role)
        IN  /\ me.user_type \in {"doctor", "patient", "admin_only"}
            /\ me.user_type = "doctor" <=> (role = "super" /\ me.person_id \in DOMAIN Doctor)
            /\ me.user_type = "patient" <=> (role = "normal" /\ me.person_id \in DOMAIN Patient)
            /\ name \in DOMAIN tbl =>
                   me.person_id = IF tbl[name].person_id \in {NULL, ""} THEN name
                                  ELSE tbl[name].person_id

\* the person ids and user types identity resolution can give a login
Linkage(name, role) ==
    {<<me.person_id, me.user_type>> : me \in normalize_identity(name, role)}

\* C18: changing a login's username with change_own_credentials preserves the
\* doctor/patient linkage: the person id and user type resolved for the account
\* are the same before and after the rename, also for an account without person_id.
C18_RenamePreservesLinkage ==
    [][\A old \in LoginNames, role \in Roles, new \in LoginNames :
           (/\ last'.op = "change_own_credentials" /\ last'.out = "ok"
            /\ last'.args.old_name = old /\ last'.args.role = role
            /\ last'.args.new_name = new
            /\ old \in DOMAIN LoginTable(role))
           => Linkage(new, role)' = Linkage(old, role)
      ]_vars

(***************************************************************************)
(* SpecSend: doctors, patients and plain administrators try to send        *)
(* messages, some of them empty.                                           *)
(***************************************************************************)
SendLogins == {"admin", "doc", "p1"}

NextSend ==
    \/ \E r \in Roles : set_dsn(r)
    \/ \E l \in SendLogins, text \in {NULL, "", " ", "hi"}, f \in {<<>>, PathPdf} :
           send_message(l, CURRENT_ROLE, "d1", text, f, 0)

SpecSend == InitMsg /\ [][NextSend]_vars

\* C19: send_message is rejected with ValueError when the text is blank and no file
\* is given, and with PermissionError when the caller is neither doctor nor patient;
\* in both cases no message is stored, no handle is allocated and no file is written.
C19_RejectedSendWritesNothing ==
    [][\A l \in SendLogins, r \in Roles :
           (/\ last'.op = "send_message"
            /\ last'.args.login_name = l /\ last'.args.role = r)
           => LET empty == /\ last'.args.text \in {NULL, "", " "}
                           /\ last'.args.file_path = <<>>
                  types == {me.user_type : me \in normalize_identity(l, r)}
              IN  /\ empty => last'.out = "ValueError"
                  /\ (~empty /\ types \cap {"doctor", "patient"} = {}) =>
                         last'.out = "PermissionError"
                  /\ last'.out \in {"ValueError", "PermissionError"} =>
                         /\ messages' = messages
                         /\ Counters' = Counters /\ Blob' = Blob /\ files' = files
      ]_vars

\* an administrator who is no doctor tried to send an attachment; nothing was allocated
C19_Witness ==
    /\ last.op = "send_message" /\ last.out = "PermissionError"
    /\ last.args.file_path = PathPdf
    /\ messages = <<>> /\ Blob = {} /\ Counters = <<0>> /\ DOMAIN files = {}

NextYearless ==
    \E year \in {None, Empty},
       month \in {PyInt(n) : n \in TriedMonths} \cup {None, Empty, M2},
       day \in {PyInt(n) : n \in TriedDays} \cup {None, Empty, D29, D30} :
        validate_date_parts_call(year, month, day)

SpecYearless == Init /\ [][NextYearless]_vars

\* the longest any year lets each month be
LongestMonth == <<31, 29, 31, 30, 31, 30, 31, 31, 30, 31, 30, 31>>

\* C21: with month and day but no year, validate_date_parts accepts a day up to 29
\* for February, up to 30 for April, June, September and November and up to 31 for
\* the other months and rejects anything above; a date with all three parts empty
\* is accepted and returned as (None, None, None).
C21_YearlessDayLimits ==
    last.op = "validate_date_parts" =>
        LET y == to_int(last.args.year)
            m == to_int(last.args.month)
            d == to_int(last.args.day)
        IN  /\ y = None
            /\ (m # None /\ d # None) =>
                   (last.out = "ok" <=>
                        (m.v \in 1..12 /\ d.v >= 1 /\ d.v <= LongestMonth[m.v]))
            /\ (m = None /\ d = None) =>
                   (last.out = "ok" /\ last.ret = <<None, None, None>>)
            /\ last.out = "ok" => last.ret = <<y, m, d>>

\* 29 February without a year, given as text, was accepted
C21_Witness ==
    /\ last.op = "validate_date_parts" /\ last.out = "ok"
    /\ last.args = [year |-> Empty, month |-> M2, day |-> D29]

(***************************************************************************)
(* SpecShared: two doctors and two patients whose identifiers coincide     *)
(* (doctor_ID and patient_ID are unique per label only) write to each      *)
(* other.  Logins da, db are the doctors 1, 2; pa, pb the patients 1, 2.   *)
(***************************************************************************)
InitShared ==
    /\ CURRENT_ROLE = "normal"
    /\ Clinic = EmptyTbl /\ Department = EmptyTbl
    /\ Doctor = Upsert(Upsert(EmptyTbl, "1", [name |-> "a"]), "2", [name |-> "b"])
    /\ Patient = Upsert(Upsert(EmptyTbl, "1", [name |-> "c"]), "2", [name |-> "d"])
    /\ Appointment = EmptyTbl /\ Observation = EmptyTbl /\ Diagnosis = EmptyTbl
    /\ rels = {Rel("ASSIGNED_TO", "Patient", "1", "2"), Rel("ASSIGNED_TO", "Patient", "2", "1")}
    /\ file_rels = {}
    /\ Blob = {} /\ files = EmptyTbl /\ Counters = <<0>>
    /\ Admin = Upsert(Upsert(Upsert(EmptyTbl, "admin", Account("admin", NULL)),
                             "da", Account("pw", "1")), "db", Account("pw", "2"))
    /\ User = Upsert(Upsert(Upsert(EmptyTbl, "user1", Account("user123", NULL)),
                            "pa", Account("pw", "1")), "pb", Account("pw", "2"))
    /\ messages = <<>>
    /\ session = NoSession
    /\ last = Call("start", <<>>, "ok", NULL)

SharedIds == {"1", "2"}

NextShared ==
    \/ \E l \in {"da", "db"}, to \in SharedIds : send_message(l, "super", to, "hi", <<>>, 0)
    \/ \E l \in {"pa", "pb"}, to \in SharedIds : send_message(l, "normal", to, "hi", <<>>, 0)
    \/ \E l \in {"da", "db"}, other \in SharedIds : get_conversation(l, "super", other, MaxLimit)
    \/ \E l \in {"pa", "pb"}, other \in SharedIds : get_conversation(l, "normal", other, MaxLimit)

SpecShared == InitShared /\ [][NextShared]_vars

\* C22: get_conversation called by person X with other person Y returns only
\* messages whose sender and receiver are X and Y as persons (identifier and
\* doctor/patient type), also when a Doctor and a Patient share an identifier.
C22_OnlyOwnConversation ==
    last.op = "get_conversation" =>
        \A me \in normalize_identity(last.args.login_name, last.args.role) :
            LET X == <<me.person_id, me.user_type>>
                Y == <<last.args.other_person_id,
                       IF me.user_type = "doctor" THEN "patient" ELSE "doctor">>
            IN  \A k \in 1..Len(last.ret) :
                    {<<last.ret[k].sender_id, last.ret[k].sender_type>>,
                     <<last.ret[k].receiver_id, last.ret[k].receiver_type>>} = {X, Y}

(***************************************************************************)
(* SpecRefresh: doctor d1 and patient p1 write to each other and the       *)
(* window reloads the conversation as refresh_msgs does.                   *)
(***************************************************************************)
\* the limit refresh_msgs passes (500 in the source), scaled to the message bound
RefreshLimit == 1

NextRefresh ==
    \/ \E now \in 0..MaxTime : send_message("doc", "super", "p1", "hi", <<>>, now)
    \/ \E now \in 0..MaxTime, text \in {"hi", "yo"} :
           send_message("p1", "normal", "d1", text, <<>>, now)
    \/ get_conversation("doc", "super", "p1", RefreshLimit)
    \/ get_conversation("p1", "normal", "d1", RefreshLimit)

SpecRefresh == InitMsg /\ [][NextRefresh]_vars

\* C23: after send_message from A to B succeeds, the message is contained in the
\* next get_conversation between A and B with the limit the window uses, however
\* many messages the conversation already holds.
C23_SentMessageIsShown ==
    [][(/\ last.op = "send_message" /\ last.out = "ok"
        /\ last'.op = "get_conversation"
        /\ last'.args.login_name = last.args.login_name
        /\ last'.args.role = last.args.role
        /\ last'.args.other_person_id = last.args.to_person_id
        /\ last'.args.limit = RefreshLimit)
       => \E k \in 1..Len(last'.ret) : last'.ret[k].id = last.ret
      ]_vars

\* C24: a relationship update whose new target does not exist leaves the source
\* node's previous relationship of that type in place.
C24_MissingTargetKeepsLink ==
    [][LET a == last'.args
       IN  /\ (last'.op = "department_update" /\ ~is_blank_s(a.cli_id)
                 /\ a.cli_id \notin DOMAIN Clinic) =>
                 Out(rels', "BELONGS_TO", "Department", a.dept_id)
                     = Out(rels, "BELONGS_TO", "Department", a.dept_id)
           /\ (last'.op = "doctor_update" /\ ~is_blank_s(a.new_dept_id)
                 /\ a.new_dept_id \notin DOMAIN Department) =>
                 Out(rels', "WORKS_IN", "Doctor", a.doctor_personnumer)
                     = Out(rels, "WORKS_IN", "Doctor", a.doctor_personnumer)
           /\ (last'.op = "patient_update" /\ ~is_blank_s(a.new_doctor_personnumer)
                 /\ a.new_doctor_personnumer \notin DOMAIN Doctor) =>
                 Out(rels', "ASSIGNED_TO", "Patient", a.patient_personnumer)
                     = Out(rels, "ASSIGNED_TO", "Patient", a.patient_personnumer)
      ]_vars

(***************************************************************************)
(* SpecLogin: the login window.  People try names and passwords, register  *)
(* stand-alone users, and the role is set through set_dsn.                 *)
(***************************************************************************)
TriedNames == {"", "admin", "user1", "x"}
TriedPasswords == {"", "admin", "user123", "q"}

NextLogin ==
    \/ \E u \in TriedNames, pw \in TriedPasswords : do_login(u, pw)
    \/ \E n \in {"admin", "x"}, pw \in {"admin", "q"} : insert_user(n, pw, n, FALSE)
    \/ \E r \in {"normal", "", "Super", "admin"} : set_dsn(r)

SpecLogin == Init /\ [][NextLogin]_vars

\* the pair is the name and the password of an account of this table
Matches(tbl, name, password) == \E n \in DOMAIN tbl : n = name /\ tbl[n].password = password

\* C25: the current role starts as 'normal' and becomes 'super' only by a login
\* whose name and password matched an Admin account; a failed login leaves the
\* role unchanged, a login matching only a User account sets it to 'normal', and
\* set_dsn with any value other than 'super' sets it to 'normal'.
C25_RoleFollowsLogin ==
    /\ CURRENT_ROLE = "normal"
    /\ [][LET a == last'.args
          IN  /\ CURRENT_ROLE' \in {"normal", "super"}
              /\ (CURRENT_ROLE' = "super" /\ CURRENT_ROLE # "super") =>
                     /\ last'.op = "do_login"
                     /\ \E u \in TriedNames, pw \in TriedPasswords :
                            a.username = u /\ a.password = pw /\ Matches(Admin, u, pw)
              /\ (last'.op = "do_login" /\ last'.out = "Login Failed") =>
                     CURRENT_ROLE' = CURRENT_ROLE
              /\ last'.op = "do_login" =>
                     \A u \in TriedNames, pw \in TriedPasswords :
                         (a.username = u /\ a.password = pw) =>
                             /\ Matches(Admin, u, pw) =>
                                    (last'.out = "ok" /\ CURRENT_ROLE' = "super")
                             /\ (~Matches(Admin, u, pw) /\ Matches(User, u, pw)) =>
                                    (last'.out = "ok" /\ CURRENT_ROLE' = "normal")
                             /\ (~Matches(Admin, u, pw) /\ ~Matches(User, u, pw)) =>
                                    last'.out = "Login Failed"
              /\ (last'.op = "set_dsn" /\ a.role # "super") => CURRENT_ROLE' = "normal"
         ]_vars

\* x registered as a user with the administrator's password and logged in: the role is normal
C25_Witness ==
    /\ last.op = "do_login" /\ last.out = "ok"
    /\ last.args.username = "x" /\ last.args.password = "admin"
    /\ CURRENT_ROLE = "normal"

(***************************************************************************)
(* main_interface.py: the main window                                      *)
(***************************************************************************)
\* the user types MainInterface.__init__ can resolve for a login
window_user_types(login_name, role) ==
    {LET person_id == IF pid = NULL THEN login_name ELSE pid
     IN  IF role = "super" /\ is_doctor_person(person_id) THEN "doctor"
         ELSE IF role = "normal" /\ is_patient_person(person_id) THEN "patient"
         ELSE "admin_only"
     : pid \in account_person_ids(login_name)}

\* the buttons the main window shows for a user type
main_buttons(user_type) ==
    IF user_type = "patient" THEN {"Messaging", "Account"}
    ELSE {"Patients", "Doctors", "Appointments", "Observations", "Diagnoses",
          "Clinics", "Departments", "Account"}

\* the window of the session shows this button
offered(button) ==
    /\ session # NoSession
    /\ \E ut \in window_user_types(session.login_name, session.role) :
           button \in main_buttons(ut)

\* list_recipients_for_user asks backend for get_patients_for_doctor or
\* get_doctors_for_patient; backend defines neither, so the lookup raises
list_recipients_raises(login_name, role) ==
    \E me \in normalize_identity(login_name, role) : me.user_type \in {"doctor", "patient"}

\* the Messaging button: the window is built after the recipients are listed
open_messaging ==
    LET args == [login_name |-> session.login_name, role |-> session.role]
    IN  /\ offered("Messaging")
        /\ IF list_recipients_raises(session.login_name, session.role)
           THEN Raise("open_messaging", args, "AttributeError")
           ELSE /\ last' = Call("open_messaging", args, "ok", <<>>)
                /\ UNCHANGED <<CURRENT_ROLE, graph, messages, session>>

(***************************************************************************)
(* SpecWindow: somebody logs in and uses the buttons of the main window.   *)
(***************************************************************************)
NextWindow ==
    \/ \E u \in {"admin", "doc", "p1", "user1"}, pw \in {"admin", "pw", "user123"} :
           do_login(u, pw)
    \/ open_messaging
    \/ /\ offered("Patients")
       /\ \E id \in {"p1", "p2"}, nm \in {"b", "c"}, doc \in {"", "d1"} :
              patient_insert(id, nm, doc)
    \/ /\ offered("Patients")
       /\ \E id \in {"p1", "p2"} : patient_delete(id)

SpecWindow == InitMsg /\ [][NextWindow]_vars

\* C26: every logged-in user whose resolved type is doctor or patient is offered
\* the Messaging action in the main window.
C26_MessagingOffered ==
    (last.op = "do_login" /\ last.out = "ok") =>
        \A ut \in window_user_types(session.login_name, session.role) :
            ut \in {"doctor", "patient"} => "Messaging" \in main_buttons(ut)

(***************************************************************************)
(* main_interface.py: the Add and Update buttons of the Observations and   *)
(* Diagnoses pages.  The forms are shown to role "super" only.             *)
(***************************************************************************)
\* the Add button: the chosen file is saved first, then the node is written
do_add_obs(obser_id, year, month, day, appoint_id, comment_text, fp) ==
    LET args == [obser_id |-> obser_id, year |-> year, month |-> month, day |-> day,
                 appoint_id |-> appoint_id, comment_text |-> comment_text, fp |-> fp]
        has_file == fp # <<>>
        w == lo_save(fp)
        v == validate_date_parts(year, month, day)
        out == IF has_file /\ ~w.ok THEN "ConstraintError"
               ELSE IF require_admin_raises THEN "PermissionError"
               ELSE IF ~v.ok THEN "ValueError"
               ELSE "ok"
    IN  /\ offered("Observations") /\ session.role = "super"
        /\ has_file => w.oid <= MaxOid
        /\ Counters' = IF has_file THEN w.Counters ELSE Counters
        /\ files' = IF has_file THEN w.files ELSE files
        /\ Blob' = IF has_file THEN w.Blob ELSE Blob
        /\ IF out # "ok" THEN UNCHANGED <<Observation, rels, file_rels>>
           ELSE /\ Observation' = Upsert(Observation, obser_id,
                              [obs_year |-> v.y, obs_month |-> v.m, obs_day |-> v.d,
                               obs_comment_text |-> or_None(comment_text)])
                /\ rels' = IF ~is_blank_s(appoint_id)
                           THEN relink(rels, "OF_APPOINTMENT", "Observation", obser_id, TRUE,
                                       appoint_id, appoint_id \in DOMAIN Appointment)
                           ELSE rels
                /\ file_rels' = IF has_file
                                THEN relink(file_rels, "FILE", "Observation", obser_id, TRUE,
                                            w.oid, TRUE)
                                ELSE file_rels
        /\ last' = Call("do_add_obs", args, out, NULL)
        /\ UNCHANGED <<CURRENT_ROLE, org, Appointment, Diagnosis, accounts, messages, session>>

\* the Update button: the chosen file is saved first, then the node is updated
do_update_obs(obser_id, year, month, day, appoint_id, comment_text, fp) ==
    LET args == [obser_id |-> obser_id, year |-> year, month |-> month, day |-> day,
                 appoint_id |-> appoint_id, comment_text |-> comment_text, fp |-> fp]
        has_file == fp # <<>>
        w == lo_save(fp)
        y_in == date_in(year)
        m_in == date_in(month)
        d_in == date_in(day)
        old == Observation[obser_id]
        out == IF has_file /\ ~w.ok THEN "ConstraintError"
               ELSE IF require_admin_raises THEN "PermissionError"
               ELSE IF date_in_raises(year) \/ date_in_raises(month) \/ date_in_raises(day)
               THEN "ValueError"
               ELSE IF obser_id \notin DOMAIN Observation THEN "ValueError"
               ELSE IF ~validate_date_parts(merged_part(y_in, old.obs_year),
                                            merged_part(m_in, old.obs_month),
                                            merged_part(d_in, old.obs_day)).ok
               THEN "ValueError"
               ELSE "ok"
    IN  /\ offered("Observations") /\ session.role = "super"
        /\ has_file => w.oid <= MaxOid
        /\ Counters' = IF has_file THEN w.Counters ELSE Counters
        /\ files' = IF has_file THEN w.files ELSE files
        /\ Blob' = IF has_file THEN w.Blob ELSE Blob
        /\ IF out # "ok" THEN UNCHANGED <<Observation, rels, file_rels>>
           ELSE /\ Observation' = [Observation EXCEPT ![obser_id] =
                      [obs_year |-> set_part(y_in, @.obs_year),
                       obs_month |-> set_part(m_in, @.obs_month),
                       obs_day |-> set_part(d_in, @.obs_day),
                       obs_comment_text |->
                           IF comment_text # NULL THEN comment_text
                           ELSE @.obs_comment_text]]
                /\ rels' = IF ~is_blank_s(appoint_id)
                           THEN relink(rels, "OF_APPOINTMENT", "Observation", obser_id, TRUE,
                                       appoint_id, appoint_id \in DOMAIN Appointment)
                           ELSE rels
                /\ file_rels' = IF has_file
                                THEN relink(file_rels, "FILE", "Observation", obser_id, TRUE,
                                            w.oid, TRUE)
                                ELSE file_rels
        /\ last' = Call("do_update_obs", args, out, NULL)
        /\ UNCHANGED <<CURRENT_ROLE, org, Appointment, Diagnosis, accounts, messages, session>>

\* the Add button: the chosen file is saved first, then the node is written
do_add_diagn(diagn_id, year, month, day, obser_id, comment_text, fp) ==
    LET args == [diagn_id |-> diagn_id, year |-> year, month |-> month, day |-> day,
                 obser_id |-> obser_id, comment_text |-> comment_text, fp |-> fp]
        has_file == fp # <<>>
        w == lo_save(fp)
        v == validate_date_parts(year, month, day)
        out == IF has_file /\ ~w.ok THEN "ConstraintError"
               ELSE IF require_admin_raises THEN "PermissionError"
               ELSE IF ~v.ok THEN "ValueError"
               ELSE "ok"
    IN  /\ offered("Diagnoses") /\ session.role = "super"
        /\ has_file => w.oid <= MaxOid
        /\ Counters' = IF has_file THEN w.Counters ELSE Counters
        /\ files' = IF has_file THEN w.files ELSE files
        /\ Blob' = IF has_file THEN w.Blob ELSE Blob
        /\ IF out # "ok" THEN UNCHANGED <<Diagnosis, rels, file_rels>>
           ELSE /\ Diagnosis' = Upsert(Diagnosis, diagn_id,
                              [diagn_year |-> v.y, diagn_month |-> v.m, diagn_day |-> v.d,
                               diagn_comment_text |-> or_None(comment_text)])
                /\ rels' = IF ~is_blank_s(obser_id)
                           THEN relink(rels, "OF_OBSERVATION", "Diagnosis", diagn_id, TRUE,
                                       obser_id, obser_id \in DOMAIN Observation)
                           ELSE rels
                /\ file_rels' = IF has_file
                                THEN relink(file_rels, "FILE", "Diagnosis", diagn_id, TRUE,
                                            w.oid, TRUE)
                                ELSE file_rels
        /\ last' = Call("do_add_diagn", args, out, NULL)
        /\ UNCHANGED <<CURRENT_ROLE, org, Appointment, Observation, accounts, messages, session>>

\* the Update button: the chosen file is saved first, then the node is updated
do_update_diagn(diagn_id, year, month, day, obser_id, comment_text, fp) ==
    LET args == [diagn_id |-> diagn_id, year |-> year, month |-> month, day |-> day,
                 obser_id |-> obser_id, comment_text |-> comment_text, fp |-> fp]
        has_file == fp # <<>>
        w == lo_save(fp)
        y_in == date_in(year)
        m_in == date_in(month)
        d_in == date_in(day)
        old == Diagnosis[diagn_id]
        out == IF has_file /\ ~w.ok THEN "ConstraintError"
               ELSE IF require_admin_raises THEN "PermissionError"
               ELSE IF date_in_raises(year) \/ date_in_raises(month) \/ date_in_raises(day)
               THEN "ValueError"
               ELSE IF diagn_id \notin DOMAIN Diagnosis THEN "ValueError"
               ELSE IF ~validate_date_parts(merged_part(y_in, old.diagn_year),
                                            merged_part(m_in, old.diagn_month),
                                            merged_part(d_in, old.diagn_day)).ok
               THEN "ValueError"
               ELSE "ok"
    IN  /\ offered("Diagnoses") /\ session.role = "super"
        /\ has_file => w.oid <= MaxOid
        /\ Counters' = IF has_file THEN w.Counters ELSE Counters
        /\ files' = IF has_file THEN w.files ELSE files
        /\ Blob' = IF has_file THEN w.Blob ELSE Blob
        /\ IF out # "ok" THEN UNCHANGED <<Diagnosis, rels, file_rels>>
           ELSE /\ Diagnosis' = [Diagnosis EXCEPT ![diagn_id] =
                      [diagn_year |-> set_part(y_in, @.diagn_year),
                       diagn_month |-> set_part(m_in, @.diagn_month),
                       diagn_day |-> set_part(d_in, @.diagn_day),
                       diagn_comment_text |->
                           IF comment_text # NULL THEN comment_text
                           ELSE @.diagn_comment_text]]
                /\ rels' = IF ~is_blank_s(obser_id)
                           THEN relink(rels, "OF_OBSERVATION", "Diagnosis", diagn_id, TRUE,
                                       obser_id, obser_id \in DOMAIN Observation)
                           ELSE rels
                /\ file_rels' = IF has_file
                                THEN relink(file_rels, "FILE", "Diagnosis", diagn_id, TRUE,
                                            w.oid, TRUE)
                                ELSE file_rels
        /\ last' = Call("do_update_diagn", args, out, NULL)
        /\ UNCHANGED <<CURRENT_ROLE, org, Appointment, Observation, accounts, messages, session>>

(***************************************************************************)
(* SpecAttach: the administrator logs in and records observations and      *)
(* diagnoses, some with a file chosen, some with a date that is refused.   *)
(***************************************************************************)
NextAttach ==
    \/ do_login("admin", "admin")
    \/ \E d \in {D29, D30}, fp \in {<<>>, PathPdf} :
           do_add_obs("1", Y2024, M2, d, "", "c", fp)
    \/ \E id \in {"1", "2"}, d \in {Empty, D30}, fp \in {<<>>, PathPdf} :
           do_update_obs(id, Empty, Empty, d, "", NULL, fp)
    \/ \E d \in {D29, D30}, fp \in {<<>>, PathNoExt} :
           do_add_diagn("1", Y2024, M2, d, "1", "c", fp)
    \/ \E id \in {"1", "2"}, d \in {Empty, D30}, fp \in {<<>>, PathNoExt} :
           do_update_diagn(id, Empty, Empty, d, "", NULL, fp)

SpecAttach == Init /\ [][NextAttach]_vars

\* C27: when adding or updating an observation or diagnosis with a chosen file
\* fails, the failed action leaves the stores as they were: no attachment handle
\* is consumed and no Blob node or stored file is left behind.
C27_FailedAddLeavesStores ==
    [][(last'.op \in {"do_add_obs", "do_update_obs", "do_add_diagn", "do_update_diagn"}
          /\ last'.out # "ok")
       => UNCHANGED <<graph, messages>>
      ]_vars

(***************************************************************************)
(* SpecDelete: an administrator builds the chain clinic - department -     *)
(* doctor - patient - appointment - observation - diagnosis, every node    *)
(* with identifier "1" or "2", and deletes nodes anywhere in it.           *)
(***************************************************************************)
NextDelete ==
    \/ do_login("admin", "admin")
    \/ lo_save_file(PathPdf)
    \/ clinic_insert("1", "a", "")
    \/ department_insert("1", "a", "1")
    \/ doctor_insert("1", "a", "1")
    \/ \E id \in {"1", "2"} : patient_insert(id, "a", "1")
    \/ appointment_insert("1", Empty, Empty, Empty, "", "1", "1")
    \/ observation_insert("1", Empty, Empty, Empty, "1", "c", PyInt(1))
    \/ diagnosis_insert("1", Empty, Empty, Empty, "1", "c", PyInt(1))
    \/ clinic_delete("1")
    \/ department_delete("1")
    \/ doctor_delete("1")
    \/ \E id \in {"1", "2"} : patient_delete(id)
    \/ appointment_delete("1")
    \/ observation_delete("1")
    \/ diagnosis_delete("1")

SpecDelete == Init /\ [][NextDelete]_vars

\* the label of the node a relationship of this type points to
ToLabel(type) ==
    CASE type = "BELONGS_TO" -> "Clinic"
      [] type = "WORKS_IN" -> "Department"
      [] type \in {"ASSIGNED_TO", "DOCTOR"} -> "Doctor"
      [] type = "PATIENT" -> "Patient"
      [] type = "OF_APPOINTMENT" -> "Appointment"
      [] type = "OF_OBSERVATION" -> "Observation"
      [] type = "FILE" -> "Blob"

\* relationship r starts or ends at the node of label lbl with this id
Touches(r, lbl, id) ==
    \/ r.from = lbl /\ r.src = id
    \/ ToLabel(r.type) = lbl /\ r.dst = id

\* the tables of all labels, by label
Nodes ==
    [Clinic |-> Clinic, Department |-> Department, Doctor |-> Doctor, Patient |-> Patient,
     Appointment |-> Appointment, Observation |-> Observation, Diagnosis |-> Diagnosis]

\* the step deleted the node of label lbl with this id, its relationships and nothing else
DeletedExactly(lbl, id) ==
    /\ Nodes'[lbl] = Remove(Nodes[lbl], id)
    /\ \A l \in DOMAIN Nodes : l # lbl => Nodes'[l] = Nodes[l]
    /\ UNCHANGED <<blobstore, accounts, messages>>
    /\ IF id \in DOMAIN Nodes[lbl]
       THEN rels' \cup file_rels' =
                {r \in rels \cup file_rels : ~Touches(r, lbl, id)}
       ELSE UNCHANGED <<rels, file_rels>>
    /\ rels' \subseteq rels /\ file_rels' \subseteq file_rels

\* C28: deleting an entity removes exactly that node and every relationship
\* attached to it: all other nodes and their fields remain, no relationship is
\* left pointing at a deleted node, and deleting an id that does not exist
\* changes nothing.
C28_DeleteIsExact ==
    [][LET a == last'.args
       IN  last'.out = "ok" =>
           /\ last'.op = "clinic_delete" => DeletedExactly("Clinic", a.cli_id)
           /\ last'.op = "department_delete" => DeletedExactly("Department", a.dept_id)
           /\ last'.op = "doctor_delete" => DeletedExactly("Doctor", a.doctor_personnumer)
           /\ last'.op = "patient_delete" => DeletedExactly("Patient", a.patient_personnumer)
           /\ last'.op = "appointment_delete" => DeletedExactly("Appointment", a.appoint_id)
           /\ last'.op = "observation_delete" => DeletedExactly("Observation", a.obser_id)
           /\ last'.op = "diagnosis_delete" => DeletedExactly("Diagnosis", a.diagn_id)
      ]_vars

\* doctor 1 was deleted while a patient and an appointment still point to where it was
C28_Witness ==
    /\ last.op = "doctor_delete" /\ last.out = "ok"
    /\ "1" \notin DOMAIN Doctor
    /\ "1" \in DOMAIN Patient /\ "1" \in DOMAIN Appointment /\ "1" \in DOMAIN Department
    /\ Rel("PATIENT", "Appointment", "1", "1") \in rels
    /\ Out(rels, "ASSIGNED_TO", "Patient", "1") = {}

\* C29: department_insert called with a blank clinic id creates or updates the
\* Department node with the given name and gives it no BELONGS_TO relationship,
\* without raising an error.
C29_BlankClinicInsert ==
    [][LET a == last'.args
       IN  (last'.op = "department_insert" /\ is_blank_s(a.cli_id) /\ is_admin) =>
               /\ last'.out = "ok"
               /\ a.dept_id \in DOMAIN Department'
               /\ Department'[a.dept_id].dept_name = a.dept_name
               /\ Out(rels', "BELONGS_TO", "Department", a.dept_id)
                      = Out(rels, "BELONGS_TO", "Department", a.dept_id)
      ]_vars

====
